---- MODULE Spec2Model ----
(***************************************************************************)
(* EvoSim: gene codec, brain builder, grid world and generation controller *)
(* modelled from genome.py, neural_network.py, world.py, creature.py and   *)
(* simulation.py.                                                          *)
(*                                                                         *)
(* Python integers are unbounded; a 32-bit gene does not fit the checker's *)
(* integers when it is held unsigned.  An integer v is therefore kept as   *)
(* two limbs [hi, lo] with v = hi * 65536 + lo and 0 <= lo < 65536; hi is  *)
(* negative for a negative v (floor semantics, as Python's >> and &).      *)
(* A float weight is kept as its numerator over WEIGHT_DIVISOR.            *)
(***************************************************************************)
EXTENDS Integers, Sequences, FiniteSets, TLC

VARIABLES
    call,       \* the last call of a pure function: its name, inputs, result
    world,      \* World object: width, height, _grid, creatures, murder_count
    creatures,  \* the Creature objects; a creature's identity is its index
    lastCall,   \* World API call last made from outside: name, arguments, result
    placed,     \* agents whose place_creature returned True, not removed since
    imported,   \* names creature.py bound from config when it was imported
    sim,        \* Simulation object: its settings, generation, stats
    rng,        \* state of the generator world.rng, which is sim.rng
    pc,         \* position of the controller inside Simulation.run
    frame,      \* locals of _run_all_generations and _run_one_generation
    history,    \* observer: which run this is, what the first run produced
    config,     \* attributes of the config module, as they are at run time
    queue,      \* server.py: the generation queue handed to the worker
    worker,     \* server.py: the worker thread, its stop event, the stream
    status      \* server.py: _sim_status, its "running" and "generation"

worldVars == <<world, creatures, lastCall, placed>>
simVars == <<imported, sim, rng, pc, frame, history>>
serverVars == <<config, queue, worker, status>>
vars == <<call, world, creatures, lastCall, placed,
          imported, sim, rng, pc, frame, history, config, queue, worker,
          status>>

(***************************************************************************)
(* config.py                                                               *)
(***************************************************************************)
NUM_SENSORS == 14
NUM_ACTIONS == 8
MAX_INTERNAL_NEURONS == 4
WEIGHT_DIVISOR == 8000
CENTER_RADIUS == 20
STRIP_WIDTH == 32
CORNER_SIZE == 32

\* the module's attributes after "import config" has run the file; an
\* assignment "config.NAME = value" made later changes the attribute, not a
\* name another module bound earlier with "from config import NAME"
ConfigModule ==
    [KILL_ENABLED |-> FALSE, STRIP_WIDTH |-> STRIP_WIDTH,
     CORNER_SIZE |-> CORNER_SIZE, CENTER_RADIUS |-> CENTER_RADIUS]

(***************************************************************************)
(* Bounds of the model                                                     *)
(***************************************************************************)
\* weight_float is a multiple of 1 / (WEIGHT_DIVISOR * WeightSub)
WeightSub == 4
\* longest genome handed to the brain builder
MaxGenome == 3
\* largest grid of the World API runs
MaxWidth == 2
MaxHeight == 2

Max(a, b) == IF a >= b THEN a ELSE b
Min(a, b) == IF a <= b THEN a ELSE b
Abs(v) == IF v < 0 THEN -v ELSE v

(***************************************************************************)
(* genome.py: gene helpers                                                 *)
(***************************************************************************)
PyInt(hi, lo) == [hi |-> hi, lo |-> lo]

\* the int32 with the same 32 bits
ToSigned(g) == IF g.hi >= 32768 THEN PyInt(g.hi - 65536, g.lo) ELSE g
\* int(g) & 0xFFFFFFFF
ToUnsigned(g) == PyInt(g.hi % 65536, g.lo)

\* (gene >> shift) & (width-bit mask), for shift >= 16
BitField(g, shift, width) == (g.hi \div (2 ^ (shift - 16))) % (2 ^ width)

\* variant of decode_gene that forgets to sign-extend the weight field
decode_gene_unsigned_weight(g) ==
    LET source_type == BitField(g, 31, 1)
        source_id   == BitField(g, 24, 7)
        sink_type   == BitField(g, 23, 1)
        sink_id     == BitField(g, 16, 7)
    IN  [source_type |-> source_type,
         source_id   |-> IF source_type = 0 THEN source_id % NUM_SENSORS
                         ELSE source_id % Max(1, MAX_INTERNAL_NEURONS),
         sink_type   |-> sink_type,
         sink_id     |-> IF sink_type = 1 THEN sink_id % NUM_ACTIONS
                         ELSE sink_id % Max(1, MAX_INTERNAL_NEURONS),
         weight      |-> g.lo]

\* variant of decode_gene that reduces no id into its pool
decode_gene_no_modulo(g) ==
    LET raw == g.lo
    IN  [source_type |-> BitField(g, 31, 1),
         source_id   |-> BitField(g, 24, 7),
         sink_type   |-> BitField(g, 23, 1),
         sink_id     |-> BitField(g, 16, 7),
         weight      |-> IF raw >= 32768 THEN raw - 65536 ELSE raw]

\* weight is the numerator raw_weight of raw_weight / WEIGHT_DIVISOR
decode_gene(g) ==
    LET source_type == BitField(g, 31, 1)
        source_id   == BitField(g, 24, 7)
        sink_type   == BitField(g, 23, 1)
        sink_id     == BitField(g, 16, 7)
        raw         == g.lo
        raw_weight  == IF raw >= 32768 THEN raw - 65536 ELSE raw
    IN  [source_type |-> source_type,
         source_id   |-> IF source_type = 0 THEN source_id % NUM_SENSORS
                         ELSE source_id % Max(1, MAX_INTERNAL_NEURONS),
         sink_type   |-> sink_type,
         sink_id     |-> IF sink_type = 1 THEN sink_id % NUM_ACTIONS
                         ELSE sink_id % Max(1, MAX_INTERNAL_NEURONS),
         weight      |-> raw_weight]

\* int(): truncation toward zero of num / den, den > 0
TruncDiv(num, den) == IF num >= 0 THEN num \div den ELSE -((-num) \div den)

\* weight_float = wnum / (WEIGHT_DIVISOR * WeightSub)
encode_gene(source_type, source_id, sink_type, sink_id, wnum) ==
    LET raw0 == TruncDiv(wnum, WeightSub)
        raw1 == Max(-32768, Min(32767, raw0))
        raw2 == IF raw1 < 0 THEN raw1 + 65536 ELSE raw1
    IN  PyInt((source_type % 2) * 32768 + (source_id % 128) * 256
                  + (sink_type % 2) * 128 + (sink_id % 128),
              raw2 % 65536)

(***************************************************************************)
(* neural_network.py: brain construction                                   *)
(***************************************************************************)
parse_genome(genome) == [i \in 1..Len(genome) |-> decode_gene(genome[i])]

\* one run of the for loop inside the while loop, from connection i on
RECURSIVE UsefulPass(_, _, _)
UsefulPass(connections, i, acc) ==
    IF i > Len(connections) THEN acc
    ELSE LET c == connections[i]
             feeds == \/ c.sink_type = 1
                      \/ c.sink_type = 0 /\ c.sink_id \in acc.useful
             adds == feeds /\ c.source_type = 1 /\ c.source_id \notin acc.useful
         IN  UsefulPass(connections, i + 1,
                        IF adds THEN [useful  |-> acc.useful \cup {c.source_id},
                                      changed |-> TRUE]
                        ELSE acc)

\* the while changed loop
RECURSIVE UsefulFixpoint(_, _)
UsefulFixpoint(connections, useful) ==
    LET r == UsefulPass(connections, 1, [useful |-> useful, changed |-> FALSE])
    IN  IF r.changed THEN UsefulFixpoint(connections, r.useful) ELSE r.useful

KeepUseful(connections, useful) ==
    SelectSeq(connections, LAMBDA c : c.sink_type = 1 \/ c.sink_id \in useful)

\* variant of prune_dead_ends that runs the marking loop once only
prune_dead_ends_one_pass(connections) ==
    KeepUseful(connections,
               UsefulPass(connections, 1, [useful |-> {}, changed |-> FALSE]).useful)

prune_dead_ends(connections) ==
    KeepUseful(connections, UsefulFixpoint(connections, {}))

NeuralNetwork(genome) ==
    [genome |-> genome, connections |-> prune_dead_ends(parse_genome(genome))]

(***************************************************************************)
(* creature.py, world.py: the grid                                         *)
(***************************************************************************)
\* creature.py:26, indexed 1..8 here for Python's 0..7
DIRS == << <<1, 0>>, <<1, 1>>, <<0, 1>>, <<-1, 1>>,
           <<-1, 0>>, <<-1, -1>>, <<0, -1>>, <<1, -1>> >>

None == 0

Cells(width, height) == (0..(width - 1)) \X (0..(height - 1))

\* World.__init__: grid[y][x] = None for every cell
NewWorld(width, height) ==
    [width |-> width, height |-> height,
     grid |-> [c \in Cells(width, height) |-> None],
     creatures |-> <<>>, murder_count |-> 0]

in_bounds(w, x, y) == 0 <= x /\ x < w.width /\ 0 <= y /\ y < w.height

\* the outcome of a World method: the world, the creatures, the return value
Outcome(w, cs, ret) == [world |-> w, creatures |-> cs, ret |-> ret]

place_creature(w, cs, a) ==
    LET c == cs[a]
    IN  IF in_bounds(w, c.x, c.y) /\ w.grid[<<c.x, c.y>>] = None
        THEN Outcome([w EXCEPT !.grid[<<c.x, c.y>>] = a], cs, TRUE)
        ELSE Outcome(w, cs, FALSE)

remove_creature(w, cs, a) ==
    LET c == cs[a]
    IN  IF in_bounds(w, c.x, c.y) /\ w.grid[<<c.x, c.y>>] = a
        THEN Outcome([w EXCEPT !.grid[<<c.x, c.y>>] = None], cs, None)
        ELSE Outcome(w, cs, None)

Sign(v) == IF v > 0 THEN 1 ELSE IF v < 0 THEN -1 ELSE 0

\* the for loop of move_creature: the first index of DIRS with the sign pair
DirIndex(dx, dy) ==
    CHOOSE i \in 0..7 : DIRS[i + 1] = <<Sign(dx), Sign(dy)>>

\* variant of move_creature that does not look whether the target is free
move_creature_onto_occupant(w, cs, a, dx, dy) ==
    LET c  == cs[a]
        nx == Max(0, Min(w.width - 1, c.x + dx))
        ny == Max(0, Min(w.height - 1, c.y + dy))
    IN  IF nx = c.x /\ ny = c.y THEN Outcome(w, cs, FALSE)
        ELSE Outcome(
                [w EXCEPT !.grid = [cell \in DOMAIN w.grid |->
                     IF cell = <<nx, ny>> THEN a
                     ELSE IF cell = <<c.x, c.y>> THEN None ELSE w.grid[cell]]],
                [cs EXCEPT ![a].x = nx, ![a].y = ny,
                           ![a].last_dir =
                               IF dx # 0 \/ dy # 0 THEN DirIndex(dx, dy)
                               ELSE c.last_dir],
                TRUE)

move_creature(w, cs, a, dx, dy) ==
    LET c  == cs[a]
        nx == Max(0, Min(w.width - 1, c.x + dx))
        ny == Max(0, Min(w.height - 1, c.y + dy))
    IN  IF nx = c.x /\ ny = c.y THEN Outcome(w, cs, FALSE)
        ELSE IF w.grid[<<nx, ny>>] # None THEN Outcome(w, cs, FALSE)
        ELSE Outcome(
                [w EXCEPT !.grid = [cell \in DOMAIN w.grid |->
                     IF cell = <<nx, ny>> THEN a
                     ELSE IF cell = <<c.x, c.y>> THEN None ELSE w.grid[cell]]],
                [cs EXCEPT ![a].x = nx, ![a].y = ny,
                           ![a].last_dir =
                               IF dx # 0 \/ dy # 0 THEN DirIndex(dx, dy)
                               ELSE c.last_dir],
                TRUE)

\* no server worker has been started
IdleServer ==
    /\ config = ConfigModule
    /\ queue = <<>>
    /\ worker = [pc |-> "idle"]
    /\ status = [running |-> FALSE, generation |-> 0]

\* no Simulation object exists
IdleSim ==
    /\ IdleServer
    /\ imported = [KILL_ENABLED |-> FALSE]
    /\ sim = [population |-> 0]
    /\ rng = 1
    /\ pc = "idle"
    /\ frame = <<>>
    /\ history = <<>>

(***************************************************************************)
(* World API runs: any sequence of place / move / remove calls             *)
(***************************************************************************)
\* agents of the World API runs
ApiAgents == {1, 2}
\* displacements handed to move_creature (creature.py passes unit steps)
Deltas == {-1, 0, 1}

NoApiCall == [op |-> "none"]

ApiCreature(x, y) == [x |-> x, y |-> y, alive |-> TRUE, last_dir |-> 0]

WorldInit ==
    /\ call = [op |-> "none", done |-> TRUE]
    /\ \E w \in 1..MaxWidth, h \in 1..MaxHeight :
          /\ world = NewWorld(w, h)
          /\ creatures \in [ApiAgents -> { ApiCreature(c[1], c[2]) : c \in Cells(w, h) }]
    /\ lastCall = NoApiCall
    /\ placed = {}
    /\ IdleSim

PlaceCreature(a) ==
    \E r \in {place_creature(world, creatures, a)} :
        /\ world' = r.world
        /\ creatures' = r.creatures
        /\ lastCall' = [op |-> "place", agent |-> a, ret |-> r.ret]
        /\ placed' = IF r.ret THEN placed \cup {a} ELSE placed
        /\ UNCHANGED <<call, simVars, serverVars>>

RemoveCreature(a) ==
    \E r \in {remove_creature(world, creatures, a)} :
        /\ world' = r.world
        /\ creatures' = r.creatures
        /\ lastCall' = [op |-> "remove", agent |-> a, ret |-> r.ret]
        /\ placed' = placed \ {a}
        /\ UNCHANGED <<call, simVars, serverVars>>

MoveCreature(a, dx, dy) ==
    \E r \in {move_creature(world, creatures, a, dx, dy)} :
        /\ world' = r.world
        /\ creatures' = r.creatures
        /\ lastCall' = [op |-> "move", agent |-> a, dx |-> dx, dy |-> dy,
                        ret |-> r.ret]
        /\ UNCHANGED <<call, placed, simVars, serverVars>>

WorldNext ==
    \E a \in ApiAgents :
        \/ PlaceCreature(a)
        \/ RemoveCreature(a)
        \/ \E dx \in Deltas, dy \in Deltas : MoveCreature(a, dx, dy)

SpecWorld == WorldInit /\ [][WorldNext]_vars

(***************************************************************************)
(* C1: after any sequence of place_creature, move_creature and             *)
(* remove_creature calls no two distinct agents occupy the same cell,      *)
(* every agent placed and not removed is the occupant of the cell at its   *)
(* stored (x, y), and every cell's occupant has that cell as stored (x, y).*)
(***************************************************************************)
PosOf(a) == <<creatures[a].x, creatures[a].y>>

C1_PlacedAreOccupants == \A a \in placed : world.grid[PosOf(a)] = a

C1_OccupantsAreThere ==
    \A cell \in DOMAIN world.grid :
        world.grid[cell] # None => PosOf(world.grid[cell]) = cell

C1_NoSharedCell ==
    \A a \in placed, b \in placed : a # b => PosOf(a) # PosOf(b)

C1_GridInvariant ==
    C1_NoSharedCell /\ C1_PlacedAreOccupants /\ C1_OccupantsAreThere

(***************************************************************************)
(* C5: move_creature returns False and changes nothing exactly when the    *)
(* clamped target is the agent's cell or is occupied by another agent;     *)
(* otherwise it returns True, the old cell is vacated and the agent        *)
(* occupies the clamped target.  An agent at x = 0 moved west keeps its x  *)
(* and the call fails; no move leaves an agent out of bounds.              *)
(***************************************************************************)
C5_MoveStep ==
    lastCall'.op = "move" =>
        LET a  == lastCall'.agent
            c  == creatures[a]
            nx == Max(0, Min(world.width - 1, c.x + lastCall'.dx))
            ny == Max(0, Min(world.height - 1, c.y + lastCall'.dy))
            blocked == \/ nx = c.x /\ ny = c.y
                       \/ world.grid[<<nx, ny>>] \notin {None, a}
        IN  /\ blocked =>
                /\ lastCall'.ret = FALSE
                /\ world' = world
                /\ creatures' = creatures
            /\ ~blocked =>
                /\ lastCall'.ret = TRUE
                /\ world'.grid[<<c.x, c.y>>] = None
                /\ world'.grid[<<nx, ny>>] = a
                /\ creatures'[a].x = nx /\ creatures'[a].y = ny
            /\ (c.x = 0 /\ lastCall'.dx < 0) => creatures'[a].x = 0
            /\ (c.x = 0 /\ lastCall'.dx < 0 /\ lastCall'.dy = 0)
                   => lastCall'.ret = FALSE
            /\ \A b \in DOMAIN creatures' :
                   in_bounds(world', creatures'[b].x, creatures'[b].y)

C5_MoveContract == [][C5_MoveStep]_vars

\* a westward move at the west wall that failed, and an eastward move of the
\* same kind of agent that succeeded before it
C5_Witness ==
    /\ lastCall.op = "move" /\ lastCall.dx = -1 /\ lastCall.dy = 0
    /\ lastCall.ret = FALSE
    /\ creatures[lastCall.agent].x = 0
    /\ world.width > 1
    /\ world.grid[PosOf(lastCall.agent)] = lastCall.agent
    /\ creatures[lastCall.agent].last_dir = 4

(***************************************************************************)
(* Inputs of the codec and brain-builder checks                            *)
(***************************************************************************)
\* 7-bit id fields: both sides of every pool size, and the extremes
IdBits == {0, 1, 3, 4, 5, 7, 8, 9, 13, 14, 15, 127}
\* 16-bit weight fields: zero, the sign boundary, the extremes
WeightBits == {0, 1, 7999, 32767, 32768, 57536, 65535}

\* 32-bit values, held unsigned
UnsignedGenes ==
    { PyInt(st * 32768 + sid * 256 + kt * 128 + kid, lo) :
        st \in {0, 1}, sid \in IdBits, kt \in {0, 1}, kid \in IdBits,
        lo \in WeightBits }

\* valid field tuples: ids below the pool size of their kind, weight in range
ValidWeights ==
    { -32768 * WeightSub, -32768 * WeightSub + 1, -32767 * WeightSub - 1,
      -8000 * WeightSub, -WeightSub - 1, -WeightSub, -1, 0, 1, WeightSub - 1,
      WeightSub, WeightSub + 1, 8000 * WeightSub + 2, 32767 * WeightSub - 1,
      32767 * WeightSub }

PoolSize(kind, isSource) ==
    IF isSource THEN (IF kind = 0 THEN NUM_SENSORS ELSE MAX_INTERNAL_NEURONS)
    ELSE (IF kind = 1 THEN NUM_ACTIONS ELSE MAX_INTERNAL_NEURONS)

ValidFields ==
    { [source_type |-> st, source_id |-> sid, sink_type |-> kt,
       sink_id |-> kid, wnum |-> w] :
        st \in {0, 1}, sid \in 0..(NUM_SENSORS - 1), kt \in {0, 1},
        kid \in 0..(NUM_ACTIONS - 1), w \in ValidWeights }

\* genes of the brain-builder check: sensor 0 or internal 0..2 feeding
\* action 0 or internal 0..2
WiringGenes ==
    { encode_gene(src[1], src[2], snk[1], snk[2], WeightSub * 8000) :
        src \in {<<0, 0>>, <<1, 0>>, <<1, 1>>, <<1, 2>>},
        snk \in {<<1, 0>>, <<0, 0>>, <<0, 1>>, <<0, 2>>} }

WiringGenomes == UNION { [1..n -> WiringGenes] : n \in 0..MaxGenome }

\* a call not yet made: the inputs are drawn here, the operation applies the
\* function to them
CodecInputs ==
    { [op |-> "encode_decode", done |-> FALSE, fields |-> f] :
        f \in { v \in ValidFields :
                    /\ v.source_id < PoolSize(v.source_type, TRUE)
                    /\ v.sink_id < PoolSize(v.sink_type, FALSE) } }
    \cup { [op |-> "decode", done |-> FALSE, gene |-> g] :
             g \in UnsignedGenes \cup { ToSigned(u) : u \in UnsignedGenes } }
    \cup { [op |-> "brain", done |-> FALSE, genome |-> g] : g \in WiringGenomes }

IdleWorld ==
    /\ world = NewWorld(1, 1)
    /\ creatures = <<>>
    /\ lastCall = [op |-> "none"]
    /\ placed = {}

CodecInit == call \in CodecInputs /\ IdleWorld /\ IdleSim

(***************************************************************************)
(* Codec and brain-builder operations                                      *)
(***************************************************************************)
\* decode_gene(encode_gene(...)) on a valid field tuple
EncodeDecode ==
    /\ call.op = "encode_decode" /\ ~call.done
    /\ LET f == call.fields
           g == encode_gene(f.source_type, f.source_id, f.sink_type,
                            f.sink_id, f.wnum)
       IN  call' = [op |-> "encode_decode", done |-> TRUE, fields |-> f,
                    gene |-> g, decoded |-> decode_gene(g)]

\* decode_gene on any 32 bits, unsigned or as the int32 a genome stores
DecodeAny ==
    /\ call.op = "decode" /\ ~call.done
    /\ call' = [op |-> "decode", done |-> TRUE, gene |-> call.gene,
                decoded |-> decode_gene(call.gene)]

\* NeuralNetwork.__init__
BuildBrain ==
    /\ call.op = "brain" /\ ~call.done
    /\ call' = [op |-> "brain", done |-> TRUE, genome |-> call.genome,
                brain |-> NeuralNetwork(call.genome)]

CodecNext ==
    (EncodeDecode \/ DecodeAny \/ BuildBrain) /\ UNCHANGED <<worldVars, simVars, serverVars>>

SpecCodec == CodecInit /\ [][CodecNext]_vars

(***************************************************************************)
(* C9: decode_gene(encode_gene(f)) of a valid field tuple f returns f's    *)
(* kinds and ids, and a weight less than one quantization step             *)
(* (1 / WEIGHT_DIVISOR) away from f's weight.                              *)
(***************************************************************************)
C9_RoundTrip ==
    (call.op = "encode_decode" /\ call.done) =>
        /\ call.decoded.source_type = call.fields.source_type
        /\ call.decoded.source_id = call.fields.source_id
        /\ call.decoded.sink_type = call.fields.sink_type
        /\ call.decoded.sink_id = call.fields.sink_id
        /\ Abs(call.fields.wnum - call.decoded.weight * WeightSub) < WeightSub

C9_Witness ==
    /\ call.op = "encode_decode" /\ call.done
    /\ call.fields.wnum < 0 /\ call.fields.wnum % WeightSub # 0
    /\ call.fields.source_type = 1 /\ call.fields.source_id = 3
    /\ call.fields.sink_type = 1 /\ call.fields.sink_id = 7
    /\ call.decoded.weight = -1

(***************************************************************************)
(* C10: for every 32-bit gene, unsigned or signed, decode_gene returns     *)
(* ids below the pool size of their kind and a raw weight in               *)
(* -32768..32767, and both representations of the same 32 bits decode to   *)
(* the same fields.                                                        *)
(***************************************************************************)
C10_DecodeValid ==
    (call.op = "decode" /\ call.done) =>
        LET d == call.decoded
        IN  /\ d.source_type \in {0, 1} /\ d.sink_type \in {0, 1}
            /\ d.source_id >= 0 /\ d.sink_id >= 0
            /\ d.source_type = 0 => d.source_id < NUM_SENSORS
            /\ d.source_type = 1 => d.source_id < MAX_INTERNAL_NEURONS
            /\ d.sink_type = 1 => d.sink_id < NUM_ACTIONS
            /\ d.sink_type = 0 => d.sink_id < MAX_INTERNAL_NEURONS
            /\ d.weight >= -32768 /\ d.weight <= 32767
            /\ d = decode_gene(ToUnsigned(call.gene))
            /\ d = decode_gene(ToSigned(ToUnsigned(call.gene)))

C10_Witness ==
    /\ call.op = "decode" /\ call.done
    /\ call.gene.hi < 0
    /\ BitField(call.gene, 24, 7) = 127 /\ BitField(call.gene, 16, 7) = 127
    /\ call.decoded.source_id = 127 % MAX_INTERNAL_NEURONS
    /\ call.decoded.weight = -32768

(***************************************************************************)
(* C8: the pruned connection list is the decoded connections, in genome    *)
(* order, whose sink is an action or an internal neuron from which an      *)
(* action is reachable along internal-to-internal connections; a genome    *)
(* with no action sink has no active connection.                           *)
(***************************************************************************)
InternalIds == 0..(MAX_INTERNAL_NEURONS - 1)

\* a chain p[1] -> p[2] -> ... -> p[k] -> some action, made of connections
IsChainToAction(conns, p) ==
    /\ \A j \in 1..(Len(p) - 1) :
          \E i \in 1..Len(conns) :
              /\ conns[i].source_type = 1 /\ conns[i].source_id = p[j]
              /\ conns[i].sink_type = 0 /\ conns[i].sink_id = p[j + 1]
    /\ \E i \in 1..Len(conns) :
          /\ conns[i].source_type = 1 /\ conns[i].source_id = p[Len(p)]
          /\ conns[i].sink_type = 1

ReachesAction(conns) ==
    { n \in InternalIds :
        \E k \in 1..MAX_INTERNAL_NEURONS :
            \E p \in [1..k -> InternalIds] :
                p[1] = n /\ IsChainToAction(conns, p) }

C8_PruneIsReachability ==
    (call.op = "brain" /\ call.done) =>
        LET conns == parse_genome(call.genome)
            live == ReachesAction(conns)
        IN  /\ call.brain.connections =
                   SelectSeq(conns, LAMBDA c : c.sink_type = 1 \/ c.sink_id \in live)
            /\ (\A i \in 1..Len(conns) : conns[i].sink_type = 0)
                   => call.brain.connections = <<>>

\* sensor -> I1 -> I2 -> action, listed so that the marking needs two passes
C8_Witness ==
    /\ call.op = "brain" /\ call.done
    /\ Len(call.genome) = 3
    /\ LET conns == parse_genome(call.genome)
       IN  /\ conns[1].source_type = 0 /\ conns[1].sink_type = 0
           /\ conns[1].sink_id = 1
           /\ conns[2].source_type = 1 /\ conns[2].source_id = 1
           /\ conns[2].sink_type = 0 /\ conns[2].sink_id = 2
           /\ conns[3].source_type = 1 /\ conns[3].source_id = 2
           /\ conns[3].sink_type = 1
    /\ Len(call.brain.connections) = 3

(***************************************************************************)
(* The random source.  world.py:23 builds one numpy Generator per World    *)
(* and simulation.py:54 shares it; every draw of a run goes through it.    *)
(* The generator is kept as a Lehmer sequence on 1..65536: a draw is a     *)
(* function of the state alone and advances it, as it is for numpy's bit   *)
(* generator.  A draw returns [value, rng]: the value and the next state.  *)
(* Floats are kept as thousandths: FP stands for 1.0.                      *)
(***************************************************************************)
FP == 1000

\* seed=None
NoSeed == 0

\* states an unseeded generator (operating system entropy) may start in
EntropyStates == {4711, 31337}

RngNext(s) == (s * 75) % 65537

\* a * b modulo 65537 for a, b in 0..65536, within 32-bit arithmetic
MulMod(a, b) == (((a * (b \div 256)) % 65537) * 256 + a * (b % 256)) % 65537

RECURSIVE PowMod(_, _)
PowMod(b, e) ==
    IF e = 0 THEN 1
    ELSE LET h == PowMod(b, e \div 2)
         IN  MulMod(MulMod(h, h), IF e % 2 = 1 THEN b ELSE 1)

\* the state k draws after s: RngNext applied k times
RngSkip(s, k) == MulMod(s, PowMod(75, k))

Drawn(value, s) == [value |-> value, rng |-> s]

\* variant of default_rng that ignores the seed it is given
default_rng_entropy(seed) == EntropyStates

\* np.random.default_rng(seed): the states the new generator may be in
default_rng(seed) ==
    IF seed = NoSeed THEN EntropyStates
    ELSE {1 + ((seed * 7919) % 65536)}

\* Generator.random(): a float in [0, 1)
rng_random(s) == Drawn(((RngNext(s) - 1) * FP) \div 65536, RngNext(s))

\* Generator.integers(low, high): an integer in low..high-1
rng_integers(s, low, high) ==
    Drawn(low + ((RngNext(s) - 1) % (high - low)), RngNext(s))

\* Generator.integers(0, 2**32, dtype=np.uint32): 32 bits, as two limbs
rng_uint32(s) ==
    Drawn(PyInt(RngNext(s) - 1, RngNext(RngNext(s)) - 1), RngNext(RngNext(s)))

Swap(seq, i, j) == [seq EXCEPT ![i] = seq[j], ![j] = seq[i]]

\* Generator.permutation(n): a shuffle of 0..n-1, one draw per position
RECURSIVE Shuffle(_, _, _)
Shuffle(seq, i, s) ==
    IF i <= 1 THEN Drawn(seq, s)
    ELSE Shuffle(Swap(seq, i, 1 + ((RngNext(s) - 1) % i)), i - 1, RngNext(s))

rng_permutation(s, n) == Shuffle([i \in 1..n |-> i - 1], n, s)

\* Generator.choice(n, size, replace=False): size distinct values of 0..n-1
rng_choice(s, n, size) ==
    LET d == rng_permutation(s, n)
    IN  Drawn(SubSeq(d.value, 1, size), d.rng)

(***************************************************************************)
(* genome.py: population-level operations                                  *)
(***************************************************************************)
RECURSIVE RandomGenes(_, _, _)
RandomGenes(size, acc, s) ==
    IF Len(acc) >= size THEN Drawn(acc, s)
    ELSE LET d == rng_uint32(s)
         IN  RandomGenes(size, Append(acc, ToSigned(d.value)), d.rng)

random_genome(size, s) == RandomGenes(size, <<>>, s)

BitOf(v, b) == (v \div (2 ^ b)) % 2

Sum16(f) ==
    ((f[0] + f[1]) + (f[2] + f[3])) + ((f[4] + f[5]) + (f[6] + f[7]))
        + ((f[8] + f[9]) + (f[10] + f[11])) + ((f[12] + f[13]) + (f[14] + f[15]))

\* "if rng.random() < rate" for one bit: the draws of a gene are taken in bit
\* order, so that of bit b is draw b + 1 after the state s the gene starts in
BitFlips(bit, rate, s) == rng_random(RngSkip(s, bit)).value < rate

\* the 16 bits of limb v from bit `first` of the gene on, after the flips
MutateLimb(v, first, rate, s) ==
    Sum16([b \in 0..15 |->
              (IF BitFlips(first + b, rate, s) THEN 1 - BitOf(v, b)
               ELSE BitOf(v, b)) * (2 ^ b)])

\* for bit in range(32): gene ^= (1 << bit) when the bit's draw is below rate
MutateBits(g, rate, s) ==
    PyInt(MutateLimb(g.hi, 16, rate, s), MutateLimb(g.lo, 0, rate, s))

\* variant of mutate_genome that leaves out "gene -= 0x100000000"
mutate_genome_unsigned(genome, rate, s) ==
    Drawn([i \in 1..Len(genome) |->
              MutateBits(ToUnsigned(genome[i]), rate, RngSkip(s, 32 * (i - 1)))],
          RngSkip(s, 32 * Len(genome)))

\* 32 draws per gene, whatever the rate
mutate_genome(genome, rate, s) ==
    Drawn([i \in 1..Len(genome) |->
              ToSigned(MutateBits(ToUnsigned(genome[i]), rate,
                                  RngSkip(s, 32 * (i - 1))))],
          RngSkip(s, 32 * Len(genome)))

\* variant of crossover that loses parent B's gene at the split point
crossover_skips_gene(genome_a, genome_b, s) ==
    LET d == rng_integers(s, 0, Len(genome_a) + 1)
    IN  Drawn(SubSeq(genome_a, 1, d.value)
                  \o SubSeq(genome_b, d.value + 2, Len(genome_b)), d.rng)

\* variant of crossover with the parents exchanged
crossover_swapped(genome_a, genome_b, s) ==
    LET d == rng_integers(s, 0, Len(genome_a) + 1)
    IN  Drawn(SubSeq(genome_b, 1, d.value)
                  \o SubSeq(genome_a, d.value + 1, Len(genome_a)), d.rng)

crossover(genome_a, genome_b, s) ==
    LET d == rng_integers(s, 0, Len(genome_a) + 1)
    IN  Drawn(SubSeq(genome_a, 1, d.value)
                  \o SubSeq(genome_b, d.value + 1, Len(genome_b)), d.rng)

\* bin(v).count('1') for 0 <= v < 65536
PopCount(v) == Sum16([b \in 0..15 |-> BitOf(v, b)])

\* a ^ b on 16-bit limbs
Xor16(a, b) ==
    Sum16([i \in 0..15 |-> ((BitOf(a, i) + BitOf(b, i)) % 2) * (2 ^ i)])

\* bin(int(a) ^ int(b)).count('1'): for a negative xor, bin() writes a minus
\* sign and the digits of the magnitude
XorOnes(a, b) ==
    LET hi == Xor16(a.hi % 65536, b.hi % 65536)
        lo == Xor16(a.lo, b.lo)
    IN  IF hi < 32768 THEN PopCount(hi) + PopCount(lo)
        ELSE IF lo = 0 THEN PopCount(65536 - hi)
        ELSE PopCount(65535 - hi) + PopCount(65536 - lo)

RECURSIVE MatchingBits(_, _, _)
MatchingBits(genome_a, genome_b, i) ==
    IF i > Min(Len(genome_a), Len(genome_b)) THEN 0
    ELSE 32 - XorOnes(genome_a[i], genome_b[i])
             + MatchingBits(genome_a, genome_b, i + 1)

genome_similarity(genome_a, genome_b) ==
    IF Len(genome_a) = 0 \/ Len(genome_b) = 0 THEN 0
    ELSE (MatchingBits(genome_a, genome_b, 1) * FP)
             \div (32 * Min(Len(genome_a), Len(genome_b)))

(***************************************************************************)
(* neural_network.py: forward pass                                         *)
(***************************************************************************)
\* tanh at 0, 0.25, ..., 4.25, in thousandths
TanhTable == <<0, 245, 462, 635, 762, 848, 905, 941, 964, 978, 987, 992, 995,
               997, 998, 999, 999, 1000>>

\* np.tanh: the table, linear between its points, odd, 1.0 from 4.25 on
tanh(x) ==
    LET a == Abs(x)
        k == a \div 250
        t == IF k >= 17 THEN 1000
             ELSE TanhTable[k + 1]
                      + (((TanhTable[k + 2] - TanhTable[k + 1]) * (a % 250)) \div 250)
    IN  IF x < 0 THEN -t ELSE t

\* src * c["weight"], the weight being raw_weight / WEIGHT_DIVISOR
RECURSIVE WeightedSum(_, _, _, _, _, _)
WeightedSum(connections, i, sink_type, sink_id, sensor_inputs, internal_vals) ==
    IF i > Len(connections) THEN 0
    ELSE LET c == connections[i]
             src == IF c.source_type = 0 THEN sensor_inputs[c.source_id + 1]
                    ELSE internal_vals[c.source_id + 1]
         IN  (IF c.sink_type = sink_type /\ c.sink_id = sink_id
              THEN TruncDiv(src * c.weight, WEIGHT_DIVISOR) ELSE 0)
             + WeightedSum(connections, i + 1, sink_type, sink_id,
                           sensor_inputs, internal_vals)

\* one run of the body of "for _ in range(2)"
InternalPass(connections, sensor_inputs, internal_vals) ==
    [n \in 1..MAX_INTERNAL_NEURONS |->
        tanh(WeightedSum(connections, 1, 0, n - 1, sensor_inputs, internal_vals))]

forward(brain, sensor_inputs) ==
    LET zero == [n \in 1..MAX_INTERNAL_NEURONS |-> 0]
        once == InternalPass(brain.connections, sensor_inputs, zero)
        twice == InternalPass(brain.connections, sensor_inputs, once)
    IN  [a \in 1..NUM_ACTIONS |->
            tanh(WeightedSum(brain.connections, 1, 1, a - 1, sensor_inputs, twice))]

\* NeuralNetwork.__init__ with the state vectors it allocates
BrainObject(genome) ==
    [genome |-> genome,
     connections |-> NeuralNetwork(genome).connections,
     internal_vals |-> [n \in 1..MAX_INTERNAL_NEURONS |-> 0],
     action_vals |-> [a \in 1..NUM_ACTIONS |-> 0]]

\* variant of forward that leaves out "self._internal_vals[:] = 0.0"
forward_method_no_reset(net, sensor_inputs) ==
    LET once == InternalPass(net.connections, sensor_inputs, net.internal_vals)
        twice == InternalPass(net.connections, sensor_inputs, once)
    IN  [net EXCEPT !.internal_vals = twice,
                    !.action_vals =
                        [a \in 1..NUM_ACTIONS |->
                            tanh(WeightedSum(net.connections, 1, 1, a - 1,
                                             sensor_inputs, twice))]]

\* variant of forward with "for _ in range(3)"
forward_method_three_passes(net, sensor_inputs) ==
    LET reset == [net EXCEPT
                     !.internal_vals = [n \in 1..MAX_INTERNAL_NEURONS |-> 0],
                     !.action_vals = [a \in 1..NUM_ACTIONS |-> 0]]
        once == InternalPass(reset.connections, sensor_inputs, reset.internal_vals)
        twice == InternalPass(reset.connections, sensor_inputs, once)
        thrice == InternalPass(reset.connections, sensor_inputs, twice)
    IN  [reset EXCEPT !.internal_vals = thrice,
                      !.action_vals =
                          [a \in 1..NUM_ACTIONS |->
                              tanh(WeightedSum(reset.connections, 1, 1, a - 1,
                                               sensor_inputs, thrice))]]

\* NeuralNetwork.forward as a method of the object: the object after the
\* call; the call returns a copy of its action_vals
forward_method(net, sensor_inputs) ==
    LET reset == [net EXCEPT
                     !.internal_vals = [n \in 1..MAX_INTERNAL_NEURONS |-> 0],
                     !.action_vals = [a \in 1..NUM_ACTIONS |-> 0]]
        once == InternalPass(reset.connections, sensor_inputs, reset.internal_vals)
        twice == InternalPass(reset.connections, sensor_inputs, once)
    IN  [reset EXCEPT !.internal_vals = twice,
                      !.action_vals =
                          [a \in 1..NUM_ACTIONS |->
                              tanh(WeightedSum(reset.connections, 1, 1, a - 1,
                                               sensor_inputs, twice))]]

(***************************************************************************)
(* creature.py, world.py: an agent's step                                  *)
(***************************************************************************)
\* config.py STEPS_PER_GEN, as creature.py imported it
STEPS_PER_GEN == 300

\* 0.1
THRESHOLD == 100

\* best_act = None
NoAction == -1

\* color is left out: it is read by the visualiser only
Creature(x, y, genome) ==
    [x |-> x, y |-> y, genome |-> genome, brain |-> NeuralNetwork(genome),
     alive |-> TRUE, age |-> 0, last_dir |-> 0, radiation_dose |-> 0,
     osc_phase |-> 0]

\* sin(k * 2 pi / 30), k = 0..29, in thousandths
SinTable == <<0, 208, 407, 588, 743, 866, 951, 995, 995, 951, 866, 743, 588,
              407, 208, 0, -208, -407, -588, -743, -866, -951, -995, -995,
              -951, -866, -743, -588, -407, -208>>

get_creature(w, x, y) == IF in_bounds(w, x, y) THEN w.grid[<<x, y>>] ELSE None

local_density(w, cx, cy, radius) ==
    Cardinality({ d \in (-radius..radius) \X (-radius..radius) :
                    /\ d # <<0, 0>>
                    /\ in_bounds(w, cx + d[1], cy + d[2])
                    /\ w.grid[<<cx + d[1], cy + d[2]>>] # None })

forward_density_gradient(w, cx, cy, dir_idx) ==
    LET dx == DIRS[dir_idx + 1][1]
        dy == DIRS[dir_idx + 1][2]
        fwd == Cardinality({ k \in 1..5 :
                   get_creature(w, cx + dx * k, cy + dy * k) # None })
        bwd == Cardinality({ k \in 1..5 :
                   get_creature(w, cx - dx * k, cy - dy * k) # None })
    IN  ((fwd - bwd) * FP) \div 5

genetic_sim_to(cs, a, other) ==
    IF other = None THEN 0 ELSE genome_similarity(cs[a].genome, cs[other].genome)

\* Creature._sense: the 14 inputs, the new oscillator phase (counted in
\* steps of 2 pi / 30) and the generator after the noise draw.
\* width - 1 and height - 1 divide: a grid one cell wide or high raises here
sense(w, cs, a, s) ==
    LET c == cs[a]
        noise == rng_random(s)
        phase == c.osc_phase + 1
        dx == DIRS[c.last_dir + 1][1]
        dy == DIRS[c.last_dir + 1][2]
        ahead == get_creature(w, c.x + dx, c.y + dy)
    IN  [inputs |->
            << (c.x * FP) \div (w.width - 1),
               (c.y * FP) \div (w.height - 1),
               (c.age * FP) \div Max(1, STEPS_PER_GEN - 1),
               noise.value,
               (SinTable[(phase % 30) + 1] + FP) \div 2,
               FP - ((Min(c.x, w.width - 1 - c.x) * 2 * FP) \div w.width),
               FP - ((Min(c.y, w.height - 1 - c.y) * 2 * FP) \div w.height),
               Min(FP, (local_density(w, c.x, c.y, 2) * FP) \div 8),
               forward_density_gradient(w, c.x, c.y, c.last_dir),
               genetic_sim_to(cs, a, ahead),
               ((dx + 1) * FP) \div 2,
               ((dy + 1) * FP) \div 2,
               IF ahead # None THEN FP ELSE 0,
               FP >>,
         osc_phase |-> phase,
         rng |-> noise.rng]

\* variant of the loop in which an equal magnitude replaces the best so far
RECURSIVE BestAction_ties_override(_, _, _, _)
BestAction_ties_override(actions, i, best_act, best_val) ==
    IF i > Len(actions) THEN best_act
    ELSE IF Abs(actions[i]) >= best_val
         THEN BestAction_ties_override(actions, i + 1, i - 1, Abs(actions[i]))
         ELSE BestAction_ties_override(actions, i + 1, best_act, best_val)

\* the loop of Creature.step over the action values, from index i on
RECURSIVE BestAction(_, _, _, _)
BestAction(actions, i, best_act, best_val) ==
    IF i > Len(actions) THEN best_act
    ELSE IF Abs(actions[i]) > best_val
         THEN BestAction(actions, i + 1, i - 1, Abs(actions[i]))
         ELSE BestAction(actions, i + 1, best_act, best_val)

\* the world, the creatures and the generator after a step or an action
Effect(w, cs, s) == [world |-> w, creatures |-> cs, rng |-> s]

\* variant of kill_creature_at that leaves out "self.murder_count += 1"
kill_creature_at_uncounted(w, cs, x, y) ==
    IF ~in_bounds(w, x, y) THEN Outcome(w, cs, None)
    ELSE LET victim == w.grid[<<x, y>>]
         IN  IF victim # None /\ cs[victim].alive
             THEN Outcome([w EXCEPT !.grid[<<x, y>>] = None],
                          [cs EXCEPT ![victim].alive = FALSE], None)
             ELSE Outcome(w, cs, None)

\* variant of kill_creature_at that leaves out "self._grid[y][x] = None"
kill_creature_at_keeps_cell(w, cs, x, y) ==
    IF ~in_bounds(w, x, y) THEN Outcome(w, cs, None)
    ELSE LET victim == w.grid[<<x, y>>]
         IN  IF victim # None /\ cs[victim].alive
             THEN Outcome([w EXCEPT !.murder_count = w.murder_count + 1],
                          [cs EXCEPT ![victim].alive = FALSE], None)
             ELSE Outcome(w, cs, None)

kill_creature_at(w, cs, x, y) ==
    IF ~in_bounds(w, x, y) THEN Outcome(w, cs, None)
    ELSE LET victim == w.grid[<<x, y>>]
         IN  IF victim # None /\ cs[victim].alive
             THEN Outcome([w EXCEPT !.grid[<<x, y>>] = None,
                                    !.murder_count = w.murder_count + 1],
                          [cs EXCEPT ![victim].alive = FALSE], None)
             ELSE Outcome(w, cs, None)

\* a move in direction DIRS[d] after last_dir was set to d
TurnAndMove(w, cs, a, d, s) ==
    LET turned == [cs EXCEPT ![a].last_dir = d]
        m == move_creature(w, turned, a, DIRS[d + 1][1], DIRS[d + 1][2])
    IN  Effect(m.world, m.creatures, s)

execute_action(w, cs, a, action_id, strength, s, kill_enabled) ==
    LET c == cs[a]
    IN  CASE action_id = 0 ->
               LET m == move_creature(w, cs, a, IF strength > 0 THEN 1 ELSE -1, 0)
               IN  Effect(m.world, m.creatures, s)
          [] action_id = 1 ->
               LET m == move_creature(w, cs, a, 0, IF strength > 0 THEN 1 ELSE -1)
               IN  Effect(m.world, m.creatures, s)
          [] action_id = 2 ->
               LET d == rng_integers(s, 0, 8)
                   m == move_creature(w, cs, a, DIRS[d.value + 1][1],
                                      DIRS[d.value + 1][2])
               IN  Effect(m.world,
                          IF m.ret THEN [m.creatures EXCEPT ![a].last_dir = d.value]
                          ELSE m.creatures,
                          d.rng)
          [] action_id = 3 -> TurnAndMove(w, cs, a, c.last_dir, s)
          [] action_id = 4 -> TurnAndMove(w, cs, a, (c.last_dir - 1) % 8, s)
          [] action_id = 5 -> TurnAndMove(w, cs, a, (c.last_dir + 1) % 8, s)
          [] action_id = 6 -> TurnAndMove(w, cs, a, (c.last_dir + 4) % 8, s)
          [] OTHER ->
               IF action_id = 7 /\ kill_enabled
               THEN LET k == kill_creature_at(w, cs,
                                 c.x + DIRS[c.last_dir + 1][1],
                                 c.y + DIRS[c.last_dir + 1][2])
                    IN  Effect(k.world, k.creatures, s)
               ELSE Effect(w, cs, s)

\* Creature.step
\* variant of step that leaves out "if not self.alive: return"; the caller's
\* own test of c.alive is left out with it
step_dead_or_alive(w, cs, a, s, kill_enabled) ==
    LET aged == [cs EXCEPT ![a].age = cs[a].age + 1]
        sensed == sense(w, aged, a, s)
        felt == [aged EXCEPT ![a].osc_phase = sensed.osc_phase]
        actions == forward(felt[a].brain, sensed.inputs)
        best_act == BestAction(actions, 1, NoAction, THRESHOLD)
    IN  IF best_act = NoAction THEN Effect(w, felt, sensed.rng)
        ELSE execute_action(w, felt, a, best_act, actions[best_act + 1],
                            sensed.rng, kill_enabled)

step(w, cs, a, s, kill_enabled) ==
    IF ~cs[a].alive THEN Effect(w, cs, s)
    ELSE LET aged == [cs EXCEPT ![a].age = cs[a].age + 1]
             sensed == sense(w, aged, a, s)
             felt == [aged EXCEPT ![a].osc_phase = sensed.osc_phase]
             actions == forward(felt[a].brain, sensed.inputs)
             best_act == BestAction(actions, 1, NoAction, THRESHOLD)
         IN  IF best_act = NoAction THEN Effect(w, felt, sensed.rng)
             ELSE execute_action(w, felt, a, best_act, actions[best_act + 1],
                                 sensed.rng, kill_enabled)

(***************************************************************************)
(* world.py: populate                                                      *)
(***************************************************************************)
\* variant of populate (and of the line after its call) that leaves out
\* "self.murder_count = 0"
populate_keeps_count(w, cs, s) ==
    LET d == rng_permutation(s, w.width * w.height)
        n == Min(Len(cs), w.width * w.height)
        at == [i \in 1..n |-> <<d.value[i] % w.width, d.value[i] \div w.width>>]
    IN  Effect([w EXCEPT !.grid = [cell \in DOMAIN w.grid |->
                             IF \E i \in 1..n : at[i] = cell
                             THEN CHOOSE i \in 1..n : at[i] = cell
                             ELSE None],
                         !.creatures = [i \in 1..n |-> i]],
               [i \in 1..Len(cs) |->
                   IF i <= n THEN [cs[i] EXCEPT !.x = at[i][1], !.y = at[i][2]]
                   ELSE cs[i]],
               d.rng)

\* clear(), then the first min(len(creatures), width * height) creatures
\* get the shuffled positions; position i of the unshuffled list is
\* (i % width, i // width)
populate(w, cs, s) ==
    LET d == rng_permutation(s, w.width * w.height)
        n == Min(Len(cs), w.width * w.height)
        at == [i \in 1..n |-> <<d.value[i] % w.width, d.value[i] \div w.width>>]
    IN  Effect([w EXCEPT !.grid = [cell \in DOMAIN w.grid |->
                             IF \E i \in 1..n : at[i] = cell
                             THEN CHOOSE i \in 1..n : at[i] = cell
                             ELSE None],
                         !.creatures = [i \in 1..n |-> i],
                         !.murder_count = 0],
               [i \in 1..Len(cs) |->
                   IF i <= n THEN [cs[i] EXCEPT !.x = at[i][1], !.y = at[i][2]]
                   ELSE cs[i]],
               d.rng)

(***************************************************************************)
(* simulation.py                                                           *)
(***************************************************************************)
\* 1.0, doses being kept as millionths
RADIO_MAX_DOSE == 1000000

\* np.exp(-RADIO_FALLOFF * dist) * 0.01 in millionths: exp(-0.04) = 0.9608
RECURSIVE DosePerStep(_)
DosePerStep(dist) ==
    IF dist <= 0 THEN 10000 ELSE (DosePerStep(dist - 1) * 9608) \div 10000

\* the loop of _apply_radiation over the creatures, from index i on
RECURSIVE Irradiate(_, _, _, _)
Irradiate(w, cs, i, west_active) ==
    IF i > Len(cs) THEN Outcome(w, cs, None)
    ELSE IF ~cs[i].alive THEN Irradiate(w, cs, i + 1, west_active)
    ELSE LET dist == IF west_active THEN cs[i].x ELSE w.width - 1 - cs[i].x
             dose == cs[i].radiation_dose + DosePerStep(dist)
             dosed == [cs EXCEPT ![i].radiation_dose = dose]
         IN  IF dose > RADIO_MAX_DOSE
             THEN LET r == remove_creature(w, [dosed EXCEPT ![i].alive = FALSE], i)
                  IN  Irradiate(r.world, r.creatures, i + 1, west_active)
             ELSE Irradiate(w, dosed, i + 1, west_active)

\* variant of _apply_radiation in which the west wall radiates throughout
apply_radiation_west_only(w, cs, step_no, steps_per_gen) ==
    Irradiate(w, cs, 1, TRUE)

apply_radiation(w, cs, step_no, steps_per_gen) ==
    Irradiate(w, cs, 1, step_no < steps_per_gen \div 2)

\* the branch of _select for one live creature
Admits(mode, c, W, H) ==
    CASE mode = "east" -> c.x >= W \div 2
      [] mode = "west" -> c.x < W \div 2
      [] mode = "west_east" -> c.x < STRIP_WIDTH \/ c.x >= W - STRIP_WIDTH
      [] mode = "corners" ->
            /\ (c.x < CORNER_SIZE \/ c.x >= W - CORNER_SIZE)
            /\ (c.y < CORNER_SIZE \/ c.y >= H - CORNER_SIZE)
      [] mode = "center" ->
            (c.x - W \div 2) * (c.x - W \div 2) + (c.y - H \div 2) * (c.y - H \div 2)
                <= CENTER_RADIUS * CENTER_RADIUS
      [] OTHER -> TRUE

\* variant of select that leaves out "if not c.alive: continue"
select_dead_too(cs, mode, W, H) ==
    SelectSeq([i \in 1..Len(cs) |-> i],
              LAMBDA i : Admits(mode, cs[i], W, H))

\* variant of select that asks for strictly more than half the width
select_beyond_half(cs, mode, W, H) ==
    SelectSeq([i \in 1..Len(cs) |-> i],
              LAMBDA i : /\ cs[i].alive
                         /\ CASE mode = "east" -> cs[i].x > W \div 2
                              [] mode = "west" -> cs[i].x <= W \div 2
                              [] OTHER -> Admits(mode, cs[i], W, H))

\* _select: the survivors, as indices into the creature list, in list order
select(cs, mode, W, H) ==
    SelectSeq([i \in 1..Len(cs) |-> i],
              LAMBDA i : cs[i].alive /\ Admits(mode, cs[i], W, H))

\* the double loop of _genetic_diversity: total of 1 - similarity over the
\* pairs (i, j), i < j, from pair (i, j) on
RECURSIVE Dissimilarity(_, _, _, _)
Dissimilarity(cs, sampled, i, j) ==
    IF i > Len(sampled) THEN 0
    ELSE IF j > Len(sampled) THEN Dissimilarity(cs, sampled, i + 1, i + 2)
    ELSE FP - genome_similarity(cs[sampled[i]].genome, cs[sampled[j]].genome)
             + Dissimilarity(cs, sampled, i, j + 1)

genetic_diversity(cs, survivors, s) ==
    IF Len(survivors) < 2 THEN Drawn(0, s)
    ELSE LET sample_size == Min(50, Len(survivors))
             idx == rng_choice(s, Len(survivors), sample_size)
             sampled == [k \in 1..sample_size |-> survivors[idx.value[k] + 1]]
             count == (sample_size * (sample_size - 1)) \div 2
         IN  Drawn(IF count > 0
                   THEN Dissimilarity(cs, sampled, 1, 2) \div count ELSE 0,
                   idx.rng)

\* elapsed_s, which run() adds from the wall clock, is left out
compute_stats(cs, survivors, w, generation, s) ==
    LET diversity == genetic_diversity(cs, survivors, s)
    IN  Drawn([generation   |-> generation,
               population   |-> Len(cs),
               survivors    |-> Len(survivors),
               alive        |-> Cardinality({ i \in 1..Len(cs) : cs[i].alive }),
               survival_pct |-> (100 * FP * Len(survivors)) \div Max(1, Len(cs)),
               murdered     |-> w.murder_count,
               diversity    |-> diversity.value],
              diversity.rng)

\* [random_genome(genome_size, rng) for _ in range(population)]
RECURSIVE RandomBatch(_, _, _, _)
RandomBatch(population, genome_size, acc, s) ==
    IF Len(acc) >= population THEN Drawn(acc, s)
    ELSE LET g == random_genome(genome_size, s)
         IN  RandomBatch(population, genome_size, Append(acc, g.value), g.rng)

\* the while loop of _reproduce
RECURSIVE Breed(_, _, _, _, _, _)
Breed(cs, survivors, population, rate, acc, s) ==
    IF Len(acc) >= population THEN Drawn(SubSeq(acc, 1, population), s)
    ELSE LET pa == rng_integers(s, 0, Len(survivors))
             pb == rng_integers(pa.rng, 0, Len(survivors))
             child == crossover(cs[survivors[pa.value + 1]].genome,
                                cs[survivors[pb.value + 1]].genome, pb.rng)
             mutated == mutate_genome(child.value, rate, child.rng)
         IN  Breed(cs, survivors, population, rate,
                   Append(acc, mutated.value), mutated.rng)

reproduce(cs, survivors, population, genome_size, rate, s) ==
    IF survivors = <<>> THEN RandomBatch(population, genome_size, <<>>, s)
    ELSE Breed(cs, survivors, population, rate, <<>>, s)

(***************************************************************************)
(* Runs of the controller: Simulation(...).run(), twice with the same      *)
(* arguments.  on_step_callback keeps its default, None.                   *)
(***************************************************************************)
\* bounds of the runs
MaxGenerations == 2
MaxSteps == 2
MaxSeed == 2
\* steps of the long runs: radiation takes more than 100 steps to kill
LongSteps == 106
\* grids of the runs: _sense divides by width - 1 and height - 1
Grids == {<<2, 2>>}
Populations == {3, 5}
GenomeSizes == {1, 2}
\* 0 and 0.25
MutationRates == {0, 250}
SelectionModes == {"east", "west", "radioactive"}

\* on_gen_callback: a callable that notes what it is handed
ShortRuns ==
    [population : Populations, max_generations : 1..MaxGenerations,
     steps_per_gen : 1..MaxSteps, genome_size : GenomeSizes,
     mutation_rate : MutationRates, selection_mode : SelectionModes,
     seed : 0..MaxSeed, on_gen_callback : {TRUE}]

\* runs under radiation with generations long enough for the dose to kill,
\* with and without (None) a callback
LongRuns ==
    [population : Populations, max_generations : {2},
     steps_per_gen : {LongSteps}, genome_size : {1}, mutation_rate : {0},
     selection_mode : {"radioactive"}, seed : 1..2, on_gen_callback : BOOLEAN]

SimConfigs == ShortRuns \cup LongRuns

\* variant of the callback test that passes over a generation without
\* survivors
notify_unless_extinct(on_gen_callback, log, event) ==
    IF on_gen_callback /\ event.survivors > 0 THEN Append(log, event) ELSE log

\* "if self.on_gen_callback: self.on_gen_callback(...)": the callable notes
\* what it is handed and what it finds in the Simulation
notify(on_gen_callback, log, event) ==
    IF on_gen_callback THEN Append(log, event) ELSE log

\* Simulation.__init__, the World apart
Simulation(cfg) ==
    [population |-> cfg.population, max_generations |-> cfg.max_generations,
     steps_per_gen |-> cfg.steps_per_gen, genome_size |-> cfg.genome_size,
     mutation_rate |-> cfg.mutation_rate, selection_mode |-> cfg.selection_mode,
     seed |-> cfg.seed, on_gen_callback |-> cfg.on_gen_callback,
     generation |-> 0, stats |-> <<>>]

NoFrame ==
    [gen_idx |-> 0, genomes |-> <<>>, survivors |-> <<>>, step |-> 0,
     order |-> <<>>, turn |-> 0]

SimInit ==
    /\ call = [op |-> "none", done |-> TRUE]
    /\ lastCall = NoApiCall
    /\ placed = {}
    /\ imported \in [KILL_ENABLED : BOOLEAN]
    /\ config = [ConfigModule EXCEPT !.KILL_ENABLED = imported.KILL_ENABLED]
    /\ queue = <<>>
    /\ worker = [pc |-> "idle"]
    /\ status = [running |-> FALSE, generation |-> 0]
    /\ \E cfg \in SimConfigs, g \in Grids :
          /\ sim = Simulation(cfg)
          /\ world = NewWorld(g[1], g[2])
          /\ rng \in default_rng(cfg.seed)
    /\ creatures = <<>>
    /\ pc = "run"
    /\ frame = NoFrame
    /\ history = [run |-> 1, batches |-> <<>>, calls |-> <<>>,
                  first |-> [stats |-> <<>>, batches |-> <<>>]]

\* run(): the initial genomes
Run ==
    /\ pc = "run"
    /\ \E r \in {RandomBatch(sim.population, sim.genome_size, <<>>, rng)} :
          /\ frame' = [NoFrame EXCEPT !.genomes = r.value]
          /\ rng' = r.rng
    /\ pc' = IF sim.max_generations > 0 THEN "generation" ELSE "done"
    /\ UNCHANGED <<call, world, creatures, lastCall, placed, imported, serverVars, sim, history>>

\* _run_all_generations: top of the loop body; _run_one_generation up to
\* the step loop
BeginGeneration ==
    /\ pc = "generation"
    /\ sim' = [sim EXCEPT !.generation = frame.gen_idx]
    /\ \E r \in {populate(world,
                          [i \in 1..Len(frame.genomes) |->
                              Creature(0, 0, frame.genomes[i])],
                          rng)} :
          /\ world' = r.world
          /\ creatures' = r.creatures
          /\ rng' = r.rng
    /\ frame' = [frame EXCEPT !.step = 0, !.survivors = <<>>,
                              !.order = <<>>, !.turn = 0]
    /\ history' = [history EXCEPT !.batches = Append(history.batches, frame.genomes)]
    /\ pc' = IF sim.steps_per_gen > 0 THEN "step" ELSE "select"
    /\ UNCHANGED <<call, lastCall, placed, imported, serverVars>>

\* top of the step loop: radiation, then the order of the agents
BeginStep ==
    /\ pc = "step"
    /\ \E r \in {IF sim.selection_mode = "radioactive"
                 THEN apply_radiation(world, creatures, frame.step,
                                      sim.steps_per_gen)
                 ELSE Outcome(world, creatures, None)} :
          /\ world' = r.world
          /\ creatures' = r.creatures
    /\ \E o \in {rng_permutation(rng, Len(creatures))} :
          /\ frame' = [frame EXCEPT !.order = o.value, !.turn = 1]
          /\ rng' = o.rng
    /\ pc' = IF Len(creatures) > 0 THEN "agents" ELSE "step_end"
    /\ UNCHANGED <<call, lastCall, placed, imported, serverVars, sim, history>>

\* one pass of "for idx in order"
AgentTurn ==
    /\ pc = "agents"
    /\ \E r \in {step(world, creatures, frame.order[frame.turn] + 1, rng,
                      imported.KILL_ENABLED)} :
          /\ world' = r.world
          /\ creatures' = r.creatures
          /\ rng' = r.rng
    /\ frame' = [frame EXCEPT !.turn = frame.turn + 1]
    /\ pc' = IF frame.turn < Len(frame.order) THEN "agents" ELSE "step_end"
    /\ UNCHANGED <<call, lastCall, placed, imported, serverVars, sim, history>>

\* bottom of the step loop
EndStep ==
    /\ pc = "step_end"
    /\ frame' = [frame EXCEPT !.step = frame.step + 1]
    /\ pc' = IF frame.step + 1 < sim.steps_per_gen THEN "step" ELSE "select"
    /\ UNCHANGED <<call, world, creatures, lastCall, placed, imported, serverVars, sim,
                   rng, history>>

\* selection and statistics, and the statistics appended to sim.stats
EndGeneration ==
    /\ pc = "select"
    /\ \E survivors \in {select(creatures, sim.selection_mode,
                                world.width, world.height)} :
          \E r \in {compute_stats(creatures, survivors, world,
                                  sim.generation, rng)} :
              /\ frame' = [frame EXCEPT !.survivors = survivors]
              /\ sim' = [sim EXCEPT !.stats = Append(sim.stats, r.value)]
              /\ rng' = r.rng
    /\ pc' = "callback"
    /\ UNCHANGED <<call, world, creatures, lastCall, placed, imported, serverVars, history>>

\* if self.on_gen_callback: self.on_gen_callback(gen_idx, stats, ...)
GenCallback ==
    /\ pc = "callback"
    /\ history' = [history EXCEPT !.calls =
                      notify(sim.on_gen_callback, history.calls,
                             [gen_idx |-> frame.gen_idx,
                              stats |-> sim.stats[Len(sim.stats)],
                              survivors |-> Len(frame.survivors),
                              recorded |-> Len(sim.stats),
                              started |-> Len(history.batches)])]
    /\ pc' = "gen_end"
    /\ UNCHANGED <<call, world, creatures, lastCall, placed, imported, serverVars,
                   sim, rng, frame>>

\* if not survivors: break
Extinction ==
    /\ pc = "gen_end"
    /\ frame.survivors = <<>>
    /\ pc' = "done"
    /\ UNCHANGED <<call, world, creatures, lastCall, placed, imported, serverVars, sim,
                   rng, frame, history>>

\* genomes = self._reproduce(survivors), and the loop's next index
Reproduce ==
    /\ pc = "gen_end"
    /\ frame.survivors # <<>>
    /\ \E r \in {reproduce(creatures, frame.survivors, sim.population,
                           sim.genome_size, sim.mutation_rate, rng)} :
          /\ frame' = [frame EXCEPT !.genomes = r.value,
                                    !.gen_idx = frame.gen_idx + 1]
          /\ rng' = r.rng
    /\ pc' = IF frame.gen_idx + 1 < sim.max_generations THEN "generation"
             ELSE "done"
    /\ UNCHANGED <<call, world, creatures, lastCall, placed, imported, serverVars, sim,
                   history>>

\* a second Simulation with the same arguments, and its run()
RunAgain ==
    /\ pc = "done"
    /\ history.run = 1
    /\ history' = [run |-> 2, batches |-> <<>>, calls |-> <<>>,
                   first |-> [stats |-> sim.stats, batches |-> history.batches]]
    /\ sim' = [sim EXCEPT !.generation = 0, !.stats = <<>>]
    /\ world' = NewWorld(world.width, world.height)
    /\ rng' \in default_rng(sim.seed)
    /\ creatures' = <<>>
    /\ frame' = NoFrame
    /\ pc' = "run"
    /\ UNCHANGED <<call, lastCall, placed, imported, serverVars>>

Next ==
    \/ Run
    \/ BeginGeneration
    \/ BeginStep
    \/ AgentTurn
    \/ EndStep
    \/ EndGeneration
    \/ GenCallback
    \/ Extinction
    \/ Reproduce
    \/ RunAgain

Init == SimInit

Spec == Init /\ [][Next]_vars

(***************************************************************************)
(* C2: when a generation ends with zero survivors and generations remain,  *)
(* the controller does not stop: the next generation is run on a fresh     *)
(* random genome batch of exactly `population` genomes.                    *)
(***************************************************************************)
C2_Step ==
    (/\ pc = "gen_end"
     /\ frame.survivors = <<>>
     /\ frame.gen_idx + 1 < sim.max_generations)
        => /\ pc' = "generation"
           /\ frame'.gen_idx = frame.gen_idx + 1
           /\ Len(frame'.genomes) = sim.population

C2_ExtinctionReseeds == [][C2_Step]_vars

(***************************************************************************)
(* C3: a second run with the same seed and the same configuration repeats  *)
(* the first: at every point of the second run its per-generation          *)
(* statistics and its genome batches are a prefix of the first run's, and  *)
(* at its end they are equal.                                              *)
(***************************************************************************)
IsPrefix(a, b) == Len(a) <= Len(b) /\ a = SubSeq(b, 1, Len(a))

JustBred ==
    /\ pc \in {"generation", "done"}
    /\ frame.gen_idx >= 1
    /\ frame.survivors # <<>>

IsCrossoverOf(child, genome_a, genome_b) ==
    \E split \in 0..Len(genome_a) :
        child = SubSeq(genome_a, 1, split)
                    \o SubSeq(genome_b, split + 1, Len(genome_b))

C4_ReproduceShape ==
    /\ pc # "run" =>
          /\ Len(frame.genomes) = sim.population
          /\ \A i \in 1..Len(frame.genomes) :
                Len(frame.genomes[i]) = sim.genome_size
    /\ pc \in {"step", "agents", "step_end", "select", "gen_end"} =>
          /\ Len(creatures) = sim.population
          /\ \A a \in 1..Len(creatures) :
                Len(creatures[a].genome) = sim.genome_size
    /\ (JustBred /\ sim.mutation_rate = 0) =>
          \A i \in 1..Len(frame.genomes) :
              \E pa \in 1..Len(frame.survivors), pb \in 1..Len(frame.survivors) :
                  IsCrossoverOf(frame.genomes[i],
                                creatures[frame.survivors[pa]].genome,
                                creatures[frame.survivors[pb]].genome)

\* without mutation, a child of two genes that is neither parent's genome:
\* its first gene is one survivor's and its second another's
C4_Witness ==
    /\ JustBred /\ sim.mutation_rate = 0
    /\ sim.genome_size = 2 /\ sim.population = 5
    /\ \E i \in 1..Len(frame.genomes) :
          /\ \A p \in 1..Len(frame.survivors) :
                frame.genomes[i] # creatures[frame.survivors[p]].genome
          /\ \E pa \in 1..Len(frame.survivors), pb \in 1..Len(frame.survivors) :
                /\ frame.genomes[i][1] = creatures[frame.survivors[pa]].genome[1]
                /\ frame.genomes[i][2] = creatures[frame.survivors[pb]].genome[2]

(***************************************************************************)
(* C6: when a generation has more agents than width * height, populate     *)
(* places exactly width * height agents on distinct cells; for the whole   *)
(* generation an agent beyond that never occupies a cell, never changes    *)
(* the occupancy of a cell, and is not among the world's placed agents.    *)
(***************************************************************************)
Capacity == world.width * world.height

C6_Step ==
    /\ (pc = "generation" /\ Len(frame.genomes) > Capacity) =>
          /\ Len(world'.creatures) = Capacity
          /\ \A a \in 1..Capacity :
                world'.grid[<<creatures'[a].x, creatures'[a].y>>] = a
    /\ \A a \in DOMAIN creatures' :
          a > Capacity =>
              /\ \A cell \in DOMAIN world'.grid : world'.grid[cell] # a
              /\ \A i \in 1..Len(world'.creatures) : world'.creatures[i] # a
    /\ (pc = "agents" /\ frame.order[frame.turn] + 1 > Capacity) =>
          world'.grid = world.grid

C6_ExcessDropped == [][C6_Step]_vars

(***************************************************************************)
(* Selection on its own: _select in "east" and in "west" mode on the same  *)
(* creature list                                                           *)
(***************************************************************************)
MaxSelectWidth == 9

SelectInputs ==
    { [op |-> "select", done |-> FALSE, width |-> W, height |-> 2,
       creatures |-> << [x |-> x, y |-> 0, alive |-> alive] >>] :
        W \in (1..MaxSelectWidth) \cup {128}, x \in 0..127, alive \in BOOLEAN }

SelectInit ==
    /\ call \in { c \in SelectInputs : c.creatures[1].x < c.width }
    /\ IdleWorld
    /\ IdleSim

Select ==
    /\ call.op = "select" /\ ~call.done
    /\ call' = [op |-> "select", done |-> TRUE, width |-> call.width,
                height |-> call.height, creatures |-> call.creatures,
                east |-> select(call.creatures, "east", call.width, call.height),
                west |-> select(call.creatures, "west", call.width, call.height)]
    /\ UNCHANGED <<worldVars, simVars, serverVars>>

SelectNext == Select

SpecSelect == SelectInit /\ [][SelectNext]_vars

InSeq(v, seq) == \E k \in 1..Len(seq) : seq[k] = v

MaxGenes == 2
\* crossover calls on one pair of parents
MaxCrossovers == 4
\* generator states the genome operations start from
MaxRngStart == 3

\* int32 genes: 0, 1, -1, the two extremes, and a pair of mixed patterns
SignedGenes ==
    { PyInt(0, 0), PyInt(0, 1), PyInt(-1, 65535), PyInt(-32768, 0),
      PyInt(32767, 65535), PyInt(-21846, 21845) }

GenomesOf(n) == [1..n -> SignedGenes]

\* parents of the crossover calls
ParentsOf(n) == [1..n -> {PyInt(0, 1), PyInt(-1, 65535), PyInt(-21846, 21845)}]

\* 0, 0.25 and 1
MutateRates == {0, 250, FP}

GenomeInputs ==
    { [op |-> "mutate", done |-> FALSE, genome |-> g, rate |-> r, rng |-> s] :
        g \in UNION { GenomesOf(n) : n \in 0..MaxGenes }, r \in MutateRates,
        s \in 1..MaxRngStart }
    \cup { [op |-> "crossover", done |-> FALSE, genome_a |-> ab[1],
            genome_b |-> ab[2], rng |-> s, calls |-> 0, children |-> {}] :
             ab \in UNION { ParentsOf(n) \X ParentsOf(n) : n \in 0..MaxGenes },
             s \in 1..MaxRngStart }
    \cup { [op |-> "similarity", done |-> FALSE, genome_a |-> ab[1],
            genome_b |-> ab[2]] :
             ab \in UNION { GenomesOf(n) \X GenomesOf(m) :
                               n \in 0..MaxGenes, m \in 0..MaxGenes } }

GenomeInit == call \in GenomeInputs /\ IdleWorld /\ IdleSim

\* mutate_genome(genome, rate, rng)
Mutate ==
    /\ call.op = "mutate" /\ ~call.done
    /\ \E r \in {mutate_genome(call.genome, call.rate, call.rng)} :
          call' = [op |-> "mutate", done |-> TRUE, genome |-> call.genome,
                   rate |-> call.rate, rng |-> r.rng, mutated |-> r.value]

\* crossover(genome_a, genome_b, rng), again and again on the same parents
Crossover ==
    /\ call.op = "crossover" /\ call.calls < MaxCrossovers
    /\ \E r \in {crossover(call.genome_a, call.genome_b, call.rng)} :
          call' = [op |-> "crossover", done |-> TRUE,
                   genome_a |-> call.genome_a, genome_b |-> call.genome_b,
                   rng |-> r.rng, calls |-> call.calls + 1,
                   children |-> call.children \cup {r.value}]

\* genome_similarity(genome_a, genome_b) and genome_similarity(genome_b, genome_a)
Similarity ==
    /\ call.op = "similarity" /\ ~call.done
    /\ call' = [op |-> "similarity", done |-> TRUE,
                genome_a |-> call.genome_a, genome_b |-> call.genome_b,
                ab |-> genome_similarity(call.genome_a, call.genome_b),
                ba |-> genome_similarity(call.genome_b, call.genome_a)]

GenomeNext ==
    (Mutate \/ Crossover \/ Similarity) /\ UNCHANGED <<worldVars, simVars, serverVars>>

SpecGenome == GenomeInit /\ [][GenomeNext]_vars

IsInt32(g) == g.hi \in -32768..32767 /\ g.lo \in 0..65535

\* the int32 with every bit of g complemented: ~g = -1 - g
Complement(g) == PyInt(-1 - g.hi, 65535 - g.lo)

(***************************************************************************)
(* C11: mutate_genome returns a genome of its input's length; with rate 0  *)
(* every gene is the input gene, with rate 1 every gene is the input gene  *)
(* with all 32 bits complemented; every output gene is an int32.           *)
(***************************************************************************)
C11_MutateExtremes ==
    (call.op = "mutate" /\ call.done) =>
        /\ Len(call.mutated) = Len(call.genome)
        /\ \A i \in 1..Len(call.mutated) : IsInt32(call.mutated[i])
        /\ call.rate = 0 => call.mutated = call.genome
        /\ call.rate = FP =>
              \A i \in 1..Len(call.genome) :
                  call.mutated[i] = Complement(call.genome[i])

\* rate 1 on a genome holding a negative and a non-negative gene: the signs
\* are exchanged
C11_Witness ==
    /\ call.op = "mutate" /\ call.done /\ call.rate = FP
    /\ Len(call.genome) = 2
    /\ call.genome[1] = PyInt(-21846, 21845)
    /\ call.mutated[1] = PyInt(21845, 43690)
    /\ call.genome[2] = PyInt(0, 1)
    /\ call.mutated[2] = PyInt(-1, 65534)

(***************************************************************************)
(* C12: for parents of equal length `size`, every child crossover returns  *)
(* is genes [0, split) of parent A followed by genes [split, size) of      *)
(* parent B for a split in 0..size, so it has length `size`; the parents   *)
(* are not modified.  (split = 0 is parent B, split = size is parent A.)   *)
(***************************************************************************)
SplitAt(genome_a, genome_b, split) ==
    SubSeq(genome_a, 1, split) \o SubSeq(genome_b, split + 1, Len(genome_b))

C12_Step ==
    (call.op = "crossover" /\ call'.op = "crossover") =>
        /\ call'.genome_a = call.genome_a
        /\ call'.genome_b = call.genome_b
        /\ \A child \in call'.children :
              /\ Len(child) = Len(call.genome_a)
              /\ \E split \in 0..Len(call.genome_a) :
                    child = SplitAt(call.genome_a, call.genome_b, split)
        /\ SplitAt(call.genome_a, call.genome_b, 0) = call.genome_b
        /\ SplitAt(call.genome_a, call.genome_b, Len(call.genome_a))
               = call.genome_a

C12_CrossoverSplits == [][C12_Step]_vars

\* parents of two genes that differ in both: the calls so far have drawn
\* every split point, 0 (parent B), 1 (a mix) and 2 (parent A)
C12_Witness ==
    /\ call.op = "crossover" /\ call.done
    /\ Len(call.genome_a) = 2
    /\ call.genome_a[1] # call.genome_b[1]
    /\ call.genome_a[2] # call.genome_b[2]
    /\ call.children = { SplitAt(call.genome_a, call.genome_b, k) : k \in 0..2 }
    /\ Cardinality(call.children) = 3

(***************************************************************************)
(* C13: for non-empty genomes of int32 genes of any signs,                 *)
(* genome_similarity(A, B) is the number of bit positions at which         *)
(* corresponding genes agree in their 32-bit representation, divided by    *)
(* 32 times the shorter length; it is in [0, 1], symmetric, and 1 when     *)
(* A = B; with an empty genome it is 0.                                    *)
(***************************************************************************)
\* bit positions at which the 32-bit representations of a and b agree
AgreeingBits(a, b) ==
    32 - PopCount(Xor16(a.hi % 65536, b.hi % 65536)) - PopCount(Xor16(a.lo, b.lo))

RECURSIVE SumAgreeing(_, _, _)
SumAgreeing(genome_a, genome_b, i) ==
    IF i > Min(Len(genome_a), Len(genome_b)) THEN 0
    ELSE AgreeingBits(genome_a[i], genome_b[i])
             + SumAgreeing(genome_a, genome_b, i + 1)

C13_SimilarityIsBitAgreement ==
    (call.op = "similarity" /\ call.done) =>
        LET A == call.genome_a
            B == call.genome_b
        IN  /\ (A = <<>> \/ B = <<>>) => call.ab = 0
            /\ (A # <<>> /\ B # <<>>) =>
                  call.ab = (SumAgreeing(A, B, 1) * FP)
                                \div (32 * Min(Len(A), Len(B)))
            /\ call.ab \in 0..FP
            /\ call.ab = call.ba
            /\ (A = B /\ A # <<>>) => call.ab = FP

(***************************************************************************)
(* A brain on its own: one NeuralNetwork object, forward called on it      *)
(* again and again with any inputs                                         *)
(***************************************************************************)
\* forward calls on one brain
MaxForwardCalls == 3

\* genes of the brains: sensor 0 into internal 0, internal 0 into itself,
\* into internal 1 and into action 0, internal 1 into action 1; weight 1.0
BrainGenes ==
    { encode_gene(src[1], src[2], snk[1], snk[2], WeightSub * 8000) :
        <<src, snk>> \in { <<<<0, 0>>, <<0, 0>>>>, <<<<1, 0>>, <<0, 0>>>>,
                           <<<<1, 0>>, <<0, 1>>>>, <<<<1, 0>>, <<1, 0>>>>,
                           <<<<1, 1>>, <<1, 1>>>> } }

BrainGenomes == UNION { [1..n -> BrainGenes] : n \in 0..MaxGenome }

\* sensor vectors: all 0, and sensor 0 at 0.5 and at 1.0
SensorVectors ==
    { [i \in 1..NUM_SENSORS |-> IF i = 1 THEN v ELSE 0] : v \in {0, 500, FP} }

BrainInit ==
    /\ call \in { [op |-> "forward", done |-> FALSE, calls |-> 0,
                   net |-> BrainObject(g), before |-> <<>>, inputs |-> <<>>,
                   returned |-> <<>>] :
                    g \in BrainGenomes }
    /\ IdleWorld
    /\ IdleSim

\* brain.forward(inputs)
Forward ==
    /\ call.op = "forward" /\ call.calls < MaxForwardCalls
    /\ \E inputs \in SensorVectors :
          \E net \in {forward_method(call.net, inputs)} :
              call' = [op |-> "forward", done |-> TRUE, calls |-> call.calls + 1,
                       net |-> net, before |-> call.net.internal_vals,
                       inputs |-> inputs,
                       returned |-> net.action_vals]
    /\ UNCHANGED <<worldVars, simVars, serverVars>>

BrainNext == Forward

SpecBrain == BrainInit /\ [][BrainNext]_vars

(***************************************************************************)
(* C14: whatever forward calls a brain has served, the action vector it    *)
(* returns for a sensor vector is the one a brain newly built from the     *)
(* same genome returns for that sensor vector on its first call; the       *)
(* pruned connection list is the one built at construction.                *)
(***************************************************************************)
C14_ForwardIsAFunction ==
    (call.op = "forward" /\ call.done) =>
        /\ call.returned
               = forward_method(BrainObject(call.net.genome), call.inputs).action_vals
        /\ call.net.connections = NeuralNetwork(call.net.genome).connections

\* a brain whose internal neuron 0 feeds itself: a call with all sensors at
\* 0, on a brain whose earlier call left internal neuron 0 non-zero
C14_Witness ==
    /\ call.op = "forward" /\ call.done /\ call.calls > 1
    /\ call.before[1] # 0
    /\ \E i \in 1..Len(call.net.connections) :
          LET c == call.net.connections[i]
          IN  c.source_type = 1 /\ c.sink_type = 0 /\ c.source_id = c.sink_id
    /\ \E i \in 1..Len(call.net.connections) :
          call.net.connections[i].source_type = 0
    /\ \A i \in 1..NUM_SENSORS : call.inputs[i] = 0
    /\ \A a \in 1..NUM_ACTIONS : call.returned[a] = 0

(***************************************************************************)
(* C15: the per-generation callback is invoked once for every completed    *)
(* generation, in increasing generation index, after that generation's     *)
(* statistics were appended to the history and before the next batch is    *)
(* bred or the next generation starts, also for the generation of an       *)
(* extinction; the history holds one record per generation run, record i   *)
(* carrying generation index i.                                            *)
(***************************************************************************)
C15_CallbackPerGeneration ==
    /\ \A i \in 1..Len(sim.stats) : sim.stats[i].generation = i - 1
    /\ pc \in {"gen_end", "done"} => Len(sim.stats) = Len(history.batches)
    /\ (pc \notin {"idle", "run"} /\ sim.on_gen_callback) =>
          /\ Len(history.calls)
                 = IF pc = "callback" THEN Len(sim.stats) - 1 ELSE Len(sim.stats)
          /\ \A i \in 1..Len(history.calls) :
                /\ history.calls[i].gen_idx = i - 1
                /\ history.calls[i].stats = sim.stats[i]
                /\ history.calls[i].recorded = i
                /\ history.calls[i].started = i

\* a run of two generations with a callback, over: both generations were
\* reported, the second one without survivors
C15_Witness ==
    /\ pc = "done" /\ sim.on_gen_callback
    /\ sim.max_generations = 2
    /\ Len(history.calls) = 2
    /\ history.calls[1].survivors > 0
    /\ history.calls[2].survivors = 0

(***************************************************************************)
(* C19: at every point of a generation whose population does not exceed    *)
(* width * height, a cell is occupied iff a live agent has it as stored    *)
(* position, and that agent is the occupant; live agents are at pairwise   *)
(* distinct in-bounds positions; no cell references a dead agent; a dead   *)
(* agent does not become alive again in that generation.                   *)
(***************************************************************************)
InGeneration ==
    pc \in {"step", "agents", "step_end", "select", "callback", "gen_end"}

C19_GridIsLiveAgents ==
    (InGeneration /\ sim.population <= world.width * world.height) =>
        /\ \A cell \in DOMAIN world.grid :
              /\ world.grid[cell] # None =>
                    /\ world.grid[cell] \in DOMAIN creatures
                    /\ creatures[world.grid[cell]].alive
                    /\ PosOf(world.grid[cell]) = cell
              /\ (\E a \in DOMAIN creatures : creatures[a].alive /\ PosOf(a) = cell)
                    => world.grid[cell] # None
        /\ \A a \in DOMAIN creatures :
              creatures[a].alive =>
                  /\ in_bounds(world, creatures[a].x, creatures[a].y)
                  /\ world.grid[PosOf(a)] = a
        /\ \A a \in DOMAIN creatures, b \in DOMAIN creatures :
              (a # b /\ creatures[a].alive /\ creatures[b].alive)
                  => PosOf(a) # PosOf(b)

C19_Step ==
    /\ C19_GridIsLiveAgents'
    /\ (InGeneration /\ InGeneration') =>
          \A a \in DOMAIN creatures :
              ~creatures[a].alive => ~creatures'[a].alive

C19_GenerationGrid == [][C19_Step]_vars

\* three agents on four cells, at selection after a kill: an agent is still
\* alive and a cell is empty
C19_Witness ==
    /\ pc = "select" /\ sim.population = 3
    /\ world.murder_count > 0
    /\ \E a \in DOMAIN creatures : creatures[a].alive
    /\ \E cell \in DOMAIN world.grid : world.grid[cell] = None

(***************************************************************************)
(* C20: in each step every agent alive at its turn acts once and no dead   *)
(* agent acts: the order of a step holds every agent once, the turn of a   *)
(* live agent adds one to its age and to no other agent's, the turn of a   *)
(* dead agent changes nothing; at the end of the generation a live agent's *)
(* age is steps_per_gen and a dead agent's age is at most steps_per_gen.   *)
(***************************************************************************)
Actor == frame.order[frame.turn] + 1

C20_Step ==
    /\ pc = "agents" =>
          /\ Len(frame.order) = Len(creatures)
          /\ \A a \in DOMAIN creatures :
                \E k \in 1..Len(frame.order) :
                    /\ frame.order[k] = a - 1
                    /\ \A j \in 1..Len(frame.order) : frame.order[j] = a - 1 => j = k
          /\ frame'.turn = frame.turn + 1
          /\ \A a \in DOMAIN creatures :
                creatures'[a].age =
                    IF a = Actor /\ creatures[a].alive THEN creatures[a].age + 1
                    ELSE creatures[a].age
          /\ ~creatures[Actor].alive =>
                /\ creatures' = creatures
                /\ world' = world
                /\ rng' = rng
    /\ pc' = "select" =>
          \A a \in DOMAIN creatures' :
              /\ creatures'[a].alive => creatures'[a].age = sim.steps_per_gen
              /\ creatures'[a].age <= sim.steps_per_gen

C20_LiveAgentsActOnce == [][C20_Step]_vars

\* at selection after at least two steps: an agent that was killed by
\* another before its turn in the first step, next to one that lived
C20_Witness ==
    /\ pc = "select" /\ sim.steps_per_gen >= 2
    /\ world.murder_count > 0
    /\ \E a \in DOMAIN creatures : ~creatures[a].alive /\ creatures[a].age = 0
    /\ \E b \in DOMAIN creatures :
          creatures[b].alive /\ creatures[b].age = sim.steps_per_gen

(***************************************************************************)
(* main.py, server.py: a run started with its own settings.  Both files    *)
(* import simulation (main.py:21, server.py:29), and with it creature,     *)
(* before they assign any attribute of the config module                   *)
(***************************************************************************)
\* sizes a request may ask for, next to the defaults of _build_cfg
RequestSizes == {0, 1}

\* "python main.py --scenario X": the kill scenario selects by "center";
\* no geometry is passed, the world is config.py's
MainRequests ==
    [entry : {"main"}, kill_enabled : BOOLEAN, selection_mode : {"center"},
     strip_width : {STRIP_WIDTH}, corner_size : {CORNER_SIZE},
     center_radius : {CENTER_RADIUS}, world_width : {128}, world_height : {128}]

\* _build_cfg of a POST /start body
ServerRequests ==
    [entry : {"server"}, kill_enabled : BOOLEAN,
     selection_mode : {"west_east", "corners", "center"},
     strip_width : RequestSizes \cup {STRIP_WIDTH},
     corner_size : RequestSizes \cup {CORNER_SIZE},
     center_radius : RequestSizes \cup {CENTER_RADIUS},
     world_width : {4, 128}, world_height : {2}]

WorkerRequests == MainRequests \cup ServerRequests

\* columns the first agent may find itself in after populate
StartColumns(W) == { x \in {0, 1, 2, 31, 32, 63, 64, 95, 126} : x + 1 < W }

\* a genome whose one gene wires the bias sensor 13 to action 7 with
\* weight 1.0, and one whose gene is pruned
KillerGenome == << [hi |-> 3463, lo |-> 8000] >>
QuietGenome == << [hi |-> 0, lo |-> 0] >>

\* the action Creature.step picks for agent a: the loop over the actions
chosen_action(w, cs, a, s) ==
    LET aged == [cs EXCEPT ![a].age = cs[a].age + 1]
        sensed == sense(w, aged, a, s)
    IN  BestAction(forward(aged[a].brain, sensed.inputs), 1, NoAction, THRESHOLD)

WorkerInit ==
    /\ call \in WorkerRequests
    /\ IdleWorld
    /\ IdleSim

\* main.py:172-175 "if args.scenario == 'kill': config.KILL_ENABLED = True";
\* server.py:148-150 "_conf.KILL_ENABLED = cfg['kill_enabled']"
PatchKill ==
    /\ worker.pc = "idle"
    /\ config' = [config EXCEPT !.KILL_ENABLED =
                     IF call.entry = "main" THEN (call.kill_enabled \/ @)
                     ELSE call.kill_enabled]
    /\ worker' = [pc |-> "construct"]
    /\ UNCHANGED <<call, worldVars, simVars, queue, status>>

\* Simulation(...) and the start of its first generation: two agents, the
\* first heading east as every new Creature does, the second in the cell
\* east of it or in the cell above it
Construct ==
    /\ worker.pc = "construct"
    /\ sim' = Simulation([population |-> 2, max_generations |-> 1,
                          steps_per_gen |-> 1, genome_size |-> 1,
                          mutation_rate |-> 0,
                          selection_mode |-> call.selection_mode,
                          seed |-> NoSeed, on_gen_callback |-> TRUE])
    /\ rng' \in default_rng(NoSeed)
    /\ \E x \in StartColumns(call.world_width), ahead \in BOOLEAN :
          LET cs == << Creature(x, 0, KillerGenome),
                       IF ahead THEN Creature(x + 1, 0, QuietGenome)
                       ELSE Creature(x, 1, QuietGenome) >>
              one == place_creature(NewWorld(call.world_width, call.world_height),
                                    cs, 1)
              two == place_creature(one.world, one.creatures, 2)
          IN  /\ world' = [two.world EXCEPT !.creatures = <<1, 2>>]
              /\ creatures' = two.creatures
    /\ worker' = [pc |-> IF call.entry = "main" THEN "running" ELSE "geometry"]
    /\ UNCHANGED <<call, lastCall, placed, imported, pc, frame, history,
                   config, queue, status>>

\* server.py:165-172 "cmod.STRIP_WIDTH = cfg['strip_width']", the two
\* assignments after it and "_sim_status['running'] = True"
PatchGeometry ==
    /\ worker.pc = "geometry"
    /\ config' = [config EXCEPT !.STRIP_WIDTH = call.strip_width,
                                !.CORNER_SIZE = call.corner_size,
                                !.CENTER_RADIUS = call.center_radius]
    /\ worker' = [pc |-> "running"]
    /\ status' = [status EXCEPT !.running = TRUE]
    /\ UNCHANGED <<call, worldVars, simVars, queue>>

\* the first agent's turn: c.step(self.world, step), as creature.py runs it
\* with the KILL_ENABLED it imported
WorkerTurn ==
    /\ worker.pc = "running"
    /\ \E r \in {step(world, creatures, 1, rng, imported.KILL_ENABLED)} :
          /\ world' = r.world
          /\ creatures' = r.creatures
          /\ rng' = r.rng
    /\ worker' = [pc |-> "acted"]
    /\ UNCHANGED <<call, lastCall, placed, imported, sim, pc, frame, history,
                   config, queue, status>>

\* survivors = self._select(creatures)
WorkerSelect ==
    /\ worker.pc = "acted"
    /\ worker' = [pc |-> "selected",
                  survivors |-> select(creatures, sim.selection_mode,
                                       world.width, world.height)]
    /\ UNCHANGED <<call, worldVars, simVars, config, queue, status>>

WorkerNext ==
    \/ PatchKill
    \/ Construct
    \/ PatchGeometry
    \/ WorkerTurn
    \/ WorkerSelect

SpecWorker == WorkerInit /\ [][WorkerNext]_vars

(***************************************************************************)
(* C16: when kill mode was enabled the way the program enables it (the     *)
(* config module's KILL_ENABLED set to True by main.py's kill scenario or  *)
(* by the server's killEnabled option, after the simulation modules were   *)
(* imported), an agent whose selected action is 7 removes and marks dead   *)
(* the agent in the adjacent cell of its heading; when kill mode is not    *)
(* enabled, action 7 changes no state.                                     *)
(***************************************************************************)
C16_Step ==
    (worker.pc = "running" /\ chosen_action(world, creatures, 1, rng) = 7) =>
        LET c == creatures[1]
            cell == <<c.x + DIRS[c.last_dir + 1][1], c.y + DIRS[c.last_dir + 1][2]>>
            victim == get_creature(world, cell[1], cell[2])
        IN  IF call.kill_enabled /\ config.KILL_ENABLED
            THEN victim # None =>
                    /\ world'.grid[cell] = None
                    /\ ~creatures'[victim].alive
            ELSE /\ world' = world
                 /\ \A a \in DOMAIN creatures :
                       /\ creatures'[a].alive = creatures[a].alive
                       /\ creatures'[a].x = creatures[a].x
                       /\ creatures'[a].y = creatures[a].y
                       /\ creatures'[a].last_dir = creatures[a].last_dir

C16_KillWhenEnabled == [][C16_Step]_vars

(***************************************************************************)
(* C17: the strip width, corner size and center radius supplied with a     *)
(* run's configuration are the values the survival predicate uses for that *)
(* run: with corner size 0 in "corners" mode no agent survives, with strip *)
(* width s in "west_east" mode a live agent survives iff x < s or          *)
(* x >= width - s, and in "center" mode iff it is within the requested     *)
(* radius of the center.                                                   *)
(***************************************************************************)
RequestedAdmits(c) ==
    CASE call.selection_mode = "west_east" ->
            c.x < call.strip_width \/ c.x >= world.width - call.strip_width
      [] call.selection_mode = "corners" ->
            /\ (c.x < call.corner_size \/ c.x >= world.width - call.corner_size)
            /\ (c.y < call.corner_size \/ c.y >= world.height - call.corner_size)
      [] call.selection_mode = "center" ->
            (c.x - world.width \div 2) * (c.x - world.width \div 2)
                + (c.y - world.height \div 2) * (c.y - world.height \div 2)
                <= call.center_radius * call.center_radius

C17_GeometryFromRequest ==
    worker.pc = "selected" =>
        /\ (call.selection_mode = "corners" /\ call.corner_size = 0)
              => worker.survivors = <<>>
        /\ \A a \in DOMAIN creatures :
              InSeq(a, worker.survivors)
                  <=> (creatures[a].alive /\ RequestedAdmits(creatures[a]))

(***************************************************************************)
(* server.py: the worker thread, the generation queue and the stream       *)
(***************************************************************************)
\* queue.Queue(maxsize=200)
QUEUE_MAXSIZE == 200

\* most generations a request asks for
MaxStreamGenerations == 201

StreamRequests ==
    [op : {"start"}, max_generations : {1, MaxStreamGenerations}]

StreamInit ==
    /\ call \in StreamRequests
    /\ IdleWorld
    /\ IdleSim

\* POST /start: a new stop event, a new queue, a new thread running
\* _sim_worker up to the loop of _run_hooked
StartWorker ==
    /\ worker.pc = "idle"
    /\ queue' = <<>>
    /\ worker' = [pc |-> "loop", gen_idx |-> 0, stop |-> FALSE,
                  survivors |-> TRUE, generation |-> 0]
    /\ status' = [running |-> TRUE, generation |-> 0]
    /\ UNCHANGED <<call, worldVars, simVars, config>>

\* POST /stop: _stop_event.set()
StopWorker ==
    /\ worker.pc \notin {"idle", "terminated"}
    /\ ~worker.stop
    /\ worker' = [worker EXCEPT !.stop = TRUE]
    /\ UNCHANGED <<call, worldVars, simVars, config, queue, status>>

\* _run_hooked: the head of "for gen_idx in range(self.max_generations)",
\* the test of the stop event, one generation with or without survivors,
\* and the call of on_gen; out of the loop, "_sim_status['running'] = False"
RunGeneration ==
    /\ worker.pc = "loop"
    /\ IF worker.stop \/ ~worker.survivors \/ worker.gen_idx >= call.max_generations
       THEN /\ worker' = [worker EXCEPT !.pc = "finally"]
            /\ status' = [status EXCEPT !.running = FALSE]
       ELSE /\ \E survivors \in BOOLEAN :
                  worker' = [worker EXCEPT !.pc = "on_gen",
                                           !.survivors = survivors]
            /\ UNCHANGED status
    /\ UNCHANGED <<call, worldVars, simVars, config, queue>>

\* on_gen up to "if out_q.full()": nothing is sent once the stop event is set
OnGen ==
    /\ worker.pc = "on_gen"
    /\ worker' = IF worker.stop
                 THEN [worker EXCEPT !.pc = "loop", !.gen_idx = @ + 1]
                 ELSE [worker EXCEPT !.generation = worker.gen_idx,
                                     !.pc = IF Len(queue) >= QUEUE_MAXSIZE
                                            THEN "get_nowait" ELSE "put"]
    /\ status' = IF worker.stop THEN status
                 ELSE [status EXCEPT !.generation = worker.gen_idx]
    /\ UNCHANGED <<call, worldVars, simVars, config, queue>>

\* "try: out_q.get_nowait() except queue.Empty: pass"
DropOldest ==
    /\ worker.pc = "get_nowait"
    /\ queue' = IF queue = <<>> THEN queue ELSE Tail(queue)
    /\ worker' = [worker EXCEPT !.pc = "put"]
    /\ UNCHANGED <<call, worldVars, simVars, config, status>>

\* "out_q.put(payload)": Queue.put waits while the queue is full
PutGeneration ==
    /\ worker.pc = "put"
    /\ Len(queue) < QUEUE_MAXSIZE
    /\ queue' = Append(queue, [type |-> "generation", gen |-> worker.gen_idx])
    /\ worker' = [worker EXCEPT !.pc = "loop", !.gen_idx = @ + 1]
    /\ UNCHANGED <<call, worldVars, simVars, config, status>>

\* finally: "out_q.put({'type': 'done', ...})", which waits in the same way
PutDone ==
    /\ worker.pc = "finally"
    /\ Len(queue) < QUEUE_MAXSIZE
    /\ queue' = Append(queue, [type |-> "done", gen |-> status.generation])
    /\ worker' = [worker EXCEPT !.pc = "terminated"]
    /\ UNCHANGED <<call, worldVars, simVars, config, status>>

\* GET /stream: "payload = _gen_queue.get(timeout=1)" when a message is there
StreamGet ==
    /\ worker.pc # "idle"
    /\ queue # <<>>
    /\ queue' = Tail(queue)
    /\ UNCHANGED <<call, worldVars, simVars, config, worker, status>>

StreamNext ==
    \/ StartWorker
    \/ StopWorker
    \/ RunGeneration
    \/ OnGen
    \/ DropOldest
    \/ PutGeneration
    \/ PutDone
    \/ StreamGet

SpecStream == StreamInit /\ [][StreamNext]_vars

(***************************************************************************)
(* C18: the worker never blocks on the bounded generation queue, however   *)
(* slowly or never the stream drains it: at every message it is about to   *)
(* enqueue, the final "done" message included, the queue has room, the     *)
(* oldest pending message having been dropped when it was full.            *)
(***************************************************************************)
C18_WorkerNeverBlocks ==
    worker.pc \in {"put", "finally"} => Len(queue) < QUEUE_MAXSIZE

(***************************************************************************)
(* creature.py: one call of Creature.step, for brains that wire the bias   *)
(* sensor to action neurons                                                *)
(***************************************************************************)
\* raw weights: tanh of 824 / 8000 is the threshold itself, of 832 / 8000
\* just above it
StepWeights == {824, 832, 4000, 65536 - 832, 65536 - 4000}

\* genes "sensor 13 -> action k" with those weights
StepGenes ==
    { PyInt(13 * 256 + 128 + k, w) : k \in 0..(NUM_ACTIONS - 1), w \in StepWeights }

StepInputs ==
    [op : {"step"}, done : {FALSE}, genome : StepGenes \X StepGenes,
     blocked : BOOLEAN]

\* a 3 x 3 grid, the agent in the middle, with or without a neighbour east
StepInit ==
    /\ call \in StepInputs
    /\ LET cs == << Creature(1, 1, call.genome), Creature(2, 1, QuietGenome) >>
           one == place_creature(NewWorld(3, 3), cs, 1)
           two == IF call.blocked THEN place_creature(one.world, cs, 2) ELSE one
       IN  /\ world = [two.world EXCEPT !.creatures =
                          IF call.blocked THEN <<1, 2>> ELSE <<1>>]
           /\ creatures = IF call.blocked THEN cs ELSE <<cs[1]>>
    /\ lastCall = [op |-> "none"]
    /\ placed = {}
    /\ IdleSim

\* c.step(world, 0); the action vector forward returned is kept in call
StepOnce ==
    /\ call.op = "step" /\ ~call.done
    /\ \E r \in {step(world, creatures, 1, rng, imported.KILL_ENABLED)} :
          /\ world' = r.world
          /\ creatures' = r.creatures
          /\ rng' = r.rng
    /\ call' = [op |-> "step", done |-> TRUE, genome |-> call.genome,
                blocked |-> call.blocked,
                actions |-> LET aged == [creatures EXCEPT ![1].age = @ + 1]
                            IN  forward(aged[1].brain,
                                        sense(world, aged, 1, rng).inputs)]
    /\ UNCHANGED <<lastCall, placed, imported, sim, pc, frame, history, serverVars>>

StepNext == StepOnce

SpecStep == StepInit /\ [][StepNext]_vars

(***************************************************************************)
(* C21: the agent executes the action of lowest index among those whose    *)
(* absolute activation is maximal, provided that maximum is strictly above *)
(* 0.1; a later index of equal magnitude does not override an earlier one; *)
(* if no absolute activation exceeds 0.1 no action is executed and the     *)
(* agent's position and heading are unchanged in that step.                *)
(***************************************************************************)
C21_Step ==
    (call.op = "step" /\ ~call.done) =>
        LET aged == [creatures EXCEPT ![1].age = @ + 1]
            sensed == sense(world, aged, 1, rng)
            felt == [aged EXCEPT ![1].osc_phase = sensed.osc_phase]
            acts == forward(felt[1].brain, sensed.inputs)
            top == CHOOSE m \in { Abs(acts[i]) : i \in DOMAIN acts } :
                       \A i \in DOMAIN acts : Abs(acts[i]) <= m
            first == CHOOSE i \in DOMAIN acts :
                       /\ Abs(acts[i]) = top
                       /\ \A j \in 1..(i - 1) : Abs(acts[j]) < top
        IN  IF top > THRESHOLD
            THEN LET e == execute_action(world, felt, 1, first - 1, acts[first],
                                         sensed.rng, imported.KILL_ENABLED)
                 IN  /\ world' = e.world
                     /\ creatures' = e.creatures
                     /\ rng' = e.rng
            ELSE /\ world' = world
                 /\ creatures'[1].x = creatures[1].x
                 /\ creatures'[1].y = creatures[1].y
                 /\ creatures'[1].last_dir = creatures[1].last_dir

C22_Step ==
    (lastCall'.op = "move" /\ lastCall'.ret /\ lastCall'.agent \in placed) =>
        LET a == lastCall'.agent
            realized == <<Sign(creatures'[a].x - creatures[a].x),
                          Sign(creatures'[a].y - creatures[a].y)>>
        IN  /\ creatures'[a].last_dir \in 0..7
            /\ DIRS[creatures'[a].last_dir + 1] = realized

C22_HeadingIsRealizedMove == [][C22_Step]_vars

(***************************************************************************)
(* C23: kill_creature_at(x, y) on an in-bounds occupied cell marks the     *)
(* occupant dead, empties the cell and adds exactly one to the kill        *)
(* counter; on an out-of-bounds or empty cell it changes nothing.  The     *)
(* kill counter is zero at the start of each generation and always equals  *)
(* the number of agents of the generation that died by a kill action, and  *)
(* an agent never kills itself.                                            *)
(***************************************************************************)
Dead(cs) == { a \in DOMAIN cs : ~cs[a].alive }

C23_Step ==
    /\ pc = "agents" =>
          LET actor == Actor
              c == creatures[actor]
              kills == /\ c.alive
                       /\ imported.KILL_ENABLED
                       /\ chosen_action(world, creatures, actor, rng) = 7
              x == c.x + DIRS[c.last_dir + 1][1]
              y == c.y + DIRS[c.last_dir + 1][2]
          IN  IF kills /\ in_bounds(world, x, y) /\ world.grid[<<x, y>>] # None
              THEN LET victim == world.grid[<<x, y>>]
                   IN  /\ victim # actor
                       /\ creatures[victim].alive
                       /\ ~creatures'[victim].alive
                       /\ world'.grid[<<x, y>>] = None
                       /\ world'.murder_count = world.murder_count + 1
                       /\ Dead(creatures') = Dead(creatures) \cup {victim}
              ELSE /\ world'.murder_count = world.murder_count
                   /\ Dead(creatures') = Dead(creatures)
                   /\ kills => world' = world
    /\ pc = "step" => world'.murder_count = world.murder_count
    /\ pc = "generation" =>
          /\ world'.murder_count = 0
          /\ Dead(creatures') = {}
    /\ (InGeneration' /\ sim.selection_mode # "radioactive") =>
          world'.murder_count = Cardinality(Dead(creatures'))

C23_KillCounter == [][C23_Step]_vars

\* a second generation in its agent turns: the first one had a kill, this
\* one has had one so far, and one agent of it is dead
C23_Witness ==
    /\ pc = "agents" /\ frame.gen_idx = 1
    /\ Len(sim.stats) = 1 /\ sim.stats[1].murdered > 0
    /\ world.murder_count = 1
    /\ Cardinality(Dead(creatures)) = 1

(***************************************************************************)
(* C24: in radioactive mode, at the end of every hazard application each   *)
(* agent whose cumulative dose exceeds the threshold is marked dead and is *)
(* referenced by no grid cell, within the step and not only at generation  *)
(* end; an agent's dose never decreases; the hot wall is the west wall for *)
(* steps below steps_per_gen / 2 and the east wall afterwards; in every    *)
(* other mode no dose accrues and no agent dies of radiation.              *)
(* C24_Hazard takes the half as the code does, floor(steps_per_gen / 2);   *)
(* C24_HazardExactHalf takes it as the exact half.                         *)
(***************************************************************************)
HazardStep(west_active) ==
    /\ (pc = "step" /\ sim.selection_mode = "radioactive") =>
          /\ \A a \in DOMAIN creatures :
                /\ creatures'[a].radiation_dose =
                      IF creatures[a].alive
                      THEN creatures[a].radiation_dose
                             + DosePerStep(IF west_active THEN creatures[a].x
                                           ELSE world.width - 1 - creatures[a].x)
                      ELSE creatures[a].radiation_dose
                /\ creatures'[a].radiation_dose > RADIO_MAX_DOSE =>
                      /\ ~creatures'[a].alive
                      /\ \A cell \in DOMAIN world'.grid : world'.grid[cell] # a
                /\ (creatures[a].alive /\ ~creatures'[a].alive) =>
                      creatures'[a].radiation_dose > RADIO_MAX_DOSE
          /\ world'.murder_count = world.murder_count
    /\ (pc = "step" /\ sim.selection_mode # "radioactive") =>
          /\ world' = world
          /\ creatures' = creatures
    /\ (InGeneration /\ InGeneration') =>
          \A a \in DOMAIN creatures :
              /\ creatures'[a].radiation_dose >= creatures[a].radiation_dose
              /\ sim.selection_mode # "radioactive" =>
                    creatures'[a].radiation_dose = 0
              /\ pc # "step" =>
                    creatures'[a].radiation_dose = creatures[a].radiation_dose

C24_HazardStep == HazardStep(frame.step < sim.steps_per_gen \div 2)

C24_Hazard == [][C24_HazardStep]_vars

C24_ExactHalfStep == HazardStep(2 * frame.step < sim.steps_per_gen)

C24_HazardExactHalf == [][C24_ExactHalfStep]_vars

\* between agent turns in the second half of a generation, the east wall
\* being hot: an agent has died of its dose and its cell is free, while
\* another agent lives on
C24_Witness ==
    /\ pc = "agents" /\ sim.selection_mode = "radioactive"
    /\ frame.step >= sim.steps_per_gen \div 2
    /\ \E a \in DOMAIN creatures :
          /\ ~creatures[a].alive
          /\ creatures[a].radiation_dose > RADIO_MAX_DOSE
          /\ world.grid[PosOf(a)] = None
    /\ \E b \in DOMAIN creatures : creatures[b].alive

(***************************************************************************)
(* simulation.py: _select in every mode, on two agents at the end of a     *)
(* generation on a 128 x 2 grid                                            *)
(***************************************************************************)
\* the modes _select names, and one it does not
AllModes ==
    {"east", "west", "west_east", "corners", "center", "radioactive", "none"}

\* columns on both sides of the limits of the modes
ModeColumns == {0, 31, 32, 44, 45, 64, 84, 95, 96, 127}

ModeAgents ==
    { [x |-> x, y |-> y, alive |-> alive, last_dir |-> 0] :
        x \in ModeColumns, y \in {0, 1}, alive \in BOOLEAN }

ModesInit ==
    /\ call \in [op : {"survivors"}, done : {FALSE}, mode : AllModes]
    /\ \E c1 \in ModeAgents, c2 \in ModeAgents :
          /\ (c1.alive /\ c2.alive) => <<c1.x, c1.y>> # <<c2.x, c2.y>>
          /\ creatures = <<c1, c2>>
          /\ world = [NewWorld(128, 2) EXCEPT
                         !.creatures = <<1, 2>>,
                         !.grid = [cell \in Cells(128, 2) |->
                                      IF c1.alive /\ cell = <<c1.x, c1.y>> THEN 1
                                      ELSE IF c2.alive /\ cell = <<c2.x, c2.y>> THEN 2
                                      ELSE None]]
    /\ lastCall = [op |-> "none"]
    /\ placed = {}
    /\ IdleSim

\* survivors = self._select(creatures)
Survivors ==
    /\ call.op = "survivors" /\ ~call.done
    /\ call' = [op |-> "survivors", done |-> TRUE, mode |-> call.mode,
                survivors |-> select(creatures, call.mode,
                                     world.width, world.height)]
    /\ UNCHANGED <<worldVars, simVars, serverVars>>

ModesNext == Survivors

SpecModes == ModesInit /\ [][ModesNext]_vars

(***************************************************************************)
(* C25: in every survival mode the survivor list holds only agents that    *)
(* are alive at the end of the generation, each at most once and in        *)
(* agent-list order, and it is computed from the final positions without   *)
(* changing any agent or the grid; in radioactive mode and in the default  *)
(* (unrecognized) mode the survivors are exactly the live agents.          *)
(***************************************************************************)
C25_Step ==
    (call.op = "survivors" /\ call'.done) =>
        LET survivors == call'.survivors
        IN  /\ creatures' = creatures
            /\ world' = world
            /\ \A k \in 1..Len(survivors) :
                  /\ survivors[k] \in DOMAIN creatures
                  /\ creatures[survivors[k]].alive
            /\ \A j \in 1..Len(survivors), k \in 1..Len(survivors) :
                  j < k => survivors[j] < survivors[k]
            /\ call.mode \in {"radioactive", "none"} =>
                  \A a \in DOMAIN creatures :
                      creatures[a].alive <=> InSeq(a, survivors)

C25_SurvivorsAreAlive == [][C25_Step]_vars

\* "center" mode: the first agent is at the center and dead, the second is
\* alive and the only survivor
C25_Witness ==
    /\ call.op = "survivors" /\ call.done /\ call.mode = "center"
    /\ ~creatures[1].alive /\ creatures[1].x = 64
    /\ creatures[2].alive
    /\ call.survivors = <<2>>

(***************************************************************************)
(* A brain wired as one chain: sensor 0 into a first internal neuron, each *)
(* internal neuron of the chain into the next one, the last one into       *)
(* action 0                                                                *)
(***************************************************************************)
\* the internal neurons of a chain, in chain order, no neuron twice
ChainPaths ==
    UNION { { p \in [1..k -> 0..(MAX_INTERNAL_NEURONS - 1)] :
                \A i, j \in 1..k : i # j => p[i] # p[j] } :
            k \in 1..MAX_INTERNAL_NEURONS }

\* every connection of a chain has the same weight: 1.0 or -2.0
ChainWeights == {WeightSub * WEIGHT_DIVISOR, -2 * WeightSub * WEIGHT_DIVISOR}

\* the genes of a chain in chain order
ChainGenes(p, wnum) ==
    [i \in 1..(Len(p) + 1) |->
        IF i = 1 THEN encode_gene(0, 0, 0, p[1], wnum)
        ELSE IF i = Len(p) + 1 THEN encode_gene(1, p[Len(p)], 1, 0, wnum)
        ELSE encode_gene(1, p[i - 1], 0, p[i], wnum)]

Reversed(s) == [i \in 1..Len(s) |-> s[Len(s) + 1 - i]]

\* the genome lists the connections from the sensor on, or from the action
\* back
ChainGenome(p, wnum, backwards) ==
    IF backwards THEN Reversed(ChainGenes(p, wnum)) ELSE ChainGenes(p, wnum)

ChainInit ==
    /\ call \in { [op |-> "chain", done |-> FALSE, path |-> p, wnum |-> wnum,
                   net |-> BrainObject(ChainGenome(p, wnum, backwards)),
                   inputs |-> inputs, returned |-> <<>>] :
                    p \in ChainPaths, wnum \in ChainWeights,
                    backwards \in BOOLEAN, inputs \in SensorVectors }
    /\ IdleWorld
    /\ IdleSim

\* brain.forward(inputs) on the chain
ChainForward ==
    /\ call.op = "chain" /\ ~call.done
    /\ \E net \in {forward_method(call.net, call.inputs)} :
          call' = [call EXCEPT !.done = TRUE, !.net = net,
                               !.returned = net.action_vals]
    /\ UNCHANGED <<worldVars, simVars, serverVars>>

ChainNext == ChainForward

SpecChain == ChainInit /\ [][ChainNext]_vars

\* a value carried over n connections of weight wnum, tanh after each
RECURSIVE Hops(_, _, _)
Hops(n, v, wnum) ==
    IF n = 0 THEN v
    ELSE tanh(TruncDiv(Hops(n - 1, v, wnum) * TruncDiv(wnum, WeightSub),
                       WEIGHT_DIVISOR))

(***************************************************************************)
(* C26: forward updates the internal neurons twice, each time from the     *)
(* sensor readings and the internal values of the time before, and then    *)
(* computes the actions from the internal values of the second update.     *)
(* On a chain from sensor 0 through k distinct internal neurons to action  *)
(* 0, in whatever order the genome lists the connections: the first        *)
(* neuron of the chain holds the sensor reading carried over one           *)
(* connection, the second one the reading carried over two, every later    *)
(* one exactly 0; action 0 is the reading carried over k + 1 connections   *)
(* when k <= 2 and exactly 0 when k >= 3; every other action is 0.         *)
(***************************************************************************)
C26_TwoSynchronousPasses ==
    (call.op = "chain" /\ call.done) =>
        LET k == Len(call.path)
            s == call.inputs[1]
        IN  /\ \A i \in 1..k :
                  call.net.internal_vals[call.path[i] + 1]
                      = IF i <= 2 THEN Hops(i, s, call.wnum) ELSE 0
            /\ call.returned[1] = IF k <= 2 THEN Hops(k + 1, s, call.wnum) ELSE 0
            /\ (k <= 2 /\ s # 0) => call.returned[1] # 0
            /\ \A a \in 2..NUM_ACTIONS : call.returned[a] = 0

\* a chain through three internal neurons, listed from the action back,
\* with a non-zero sensor reading: the second neuron is non-zero, the
\* action is 0
C26_Witness ==
    /\ call.op = "chain" /\ call.done
    /\ Len(call.path) = 3 /\ call.inputs[1] # 0
    /\ call.net.genome[1] = encode_gene(1, call.path[3], 1, 0, call.wnum)
    /\ call.net.internal_vals[call.path[2] + 1] # 0
    /\ call.net.internal_vals[call.path[3] + 1] = 0
    /\ call.returned[1] = 0

(***************************************************************************)
(* The worker thread under a fair scheduler: a step of the thread that     *)
(* stays possible is taken in the end.  Nothing obliges a browser to read  *)
(* the stream, and nobody is obliged to send a request.                   *)
(***************************************************************************)
StreamFairness ==
    /\ WF_vars(RunGeneration)
    /\ WF_vars(OnGen)
    /\ WF_vars(DropOldest)
    /\ WF_vars(PutGeneration)
    /\ WF_vars(PutDone)

SpecStreamFair == StreamInit /\ [][StreamNext]_vars /\ StreamFairness

\* the stop event of the running worker is set
StopRequested == worker.pc # "idle" /\ worker.stop

\* the worker goes from the head of the loop into a generation
StartsGeneration == worker.pc = "loop" /\ worker'.pc = "on_gen"

\* the worker appends a generation message to the queue
EnqueuesGeneration ==
    /\ Len(queue') = Len(queue) + 1
    /\ queue'[Len(queue')].type = "generation"

(***************************************************************************)
(* C27: once a stop has been requested the worker starts no further        *)
(* generation and enqueues no further generation message, and in the end   *)
(* it enqueues the "done" message and terminates.                          *)
(***************************************************************************)
C27_StopLeadsToDone == StopRequested ~> worker.pc = "terminated"

\* the safety half of C27: with the stop event set, no generation is
\* started and no generation message is enqueued
C27_QuietAfterStop ==
    [][StopRequested => (~StartsGeneration /\ ~EnqueuesGeneration)]_vars

(***************************************************************************)
(* server.py: /start and /stop requests, the worker threads they leave     *)
(* behind, and the one _sim_status all of them write.  Here worker is the  *)
(* list of the threads started so far, the last one being _sim_thread, and *)
(* queue the list of the queue objects handed to them.                     *)
(***************************************************************************)
\* /start requests served
MaxStarts == 2

StatusRequests == [op : {"serve"}, max_generations : 1..MaxGenerations]

StatusInit ==
    /\ call \in StatusRequests
    /\ IdleWorld
    /\ imported = [KILL_ENABLED |-> FALSE]
    /\ sim = [population |-> 0]
    /\ rng = 1
    /\ pc = "idle"
    /\ frame = <<>>
    /\ history = <<>>
    /\ config = ConfigModule
    /\ worker = <<>>
    /\ queue = <<>>
    /\ status = [running |-> FALSE, generation |-> 0]

\* POST /start: the stop event of the thread before is set, join(timeout=3)
\* returns whether or not that thread has ended, a new event and a new
\* queue are made, the status is reset and a new thread is started
start ==
    /\ Len(worker) < MaxStarts
    /\ worker' = Append([t \in DOMAIN worker |->
                            IF t = Len(worker) THEN [worker[t] EXCEPT !.stop = TRUE]
                            ELSE worker[t]],
                        [pc |-> "start", gen_idx |-> 0, stop |-> FALSE,
                         survivors |-> TRUE])
    /\ queue' = Append(queue, <<>>)
    /\ status' = [running |-> FALSE, generation |-> 0]
    /\ UNCHANGED <<call, worldVars, simVars, config>>

\* POST /stop: _stop_event.set(), the event of the thread started last
stop ==
    /\ worker # <<>>
    /\ ~worker[Len(worker)].stop
    /\ worker' = [worker EXCEPT ![Len(worker)].stop = TRUE]
    /\ UNCHANGED <<call, worldVars, simVars, config, queue, status>>

\* _sim_worker up to "_sim_status['running'] = True"
SetRunning(t) ==
    /\ worker[t].pc = "start"
    /\ worker' = [worker EXCEPT ![t].pc = "loop"]
    /\ status' = [status EXCEPT !.running = TRUE]
    /\ UNCHANGED <<call, worldVars, simVars, config, queue>>

\* "while not stop_evt.is_set()" and the head of the loop of _run_hooked,
\* then one generation with or without survivors
LoopHead(t) ==
    /\ worker[t].pc = "loop"
    /\ IF worker[t].stop \/ ~worker[t].survivors
            \/ worker[t].gen_idx >= call.max_generations
       THEN worker' = [worker EXCEPT ![t].pc = "finally"]
       ELSE \E survivors \in BOOLEAN :
               worker' = [worker EXCEPT ![t].pc = "on_gen",
                                        ![t].survivors = survivors]
    /\ UNCHANGED <<call, worldVars, simVars, config, queue, status>>

\* on_gen: "if stop_evt.is_set(): return", else the payload is built
OnGenTest(t) ==
    /\ worker[t].pc = "on_gen"
    /\ worker' = IF worker[t].stop
                 THEN [worker EXCEPT ![t].pc = "loop", ![t].gen_idx = @ + 1]
                 ELSE [worker EXCEPT ![t].pc = "payload"]
    /\ UNCHANGED <<call, worldVars, simVars, config, queue, status>>

\* on_gen: "with _status_lock: _sim_status['generation'] = gen_idx"
OnGenStatus(t) ==
    /\ worker[t].pc = "payload"
    /\ status' = [status EXCEPT !.generation = worker[t].gen_idx]
    /\ worker' = [worker EXCEPT ![t].pc = "put"]
    /\ UNCHANGED <<call, worldVars, simVars, config, queue>>

\* on_gen: the oldest message dropped from a full queue, "out_q.put(payload)"
OnGenPut(t) ==
    /\ worker[t].pc = "put"
    /\ queue' = [queue EXCEPT ![t] =
                    Append(IF Len(@) >= QUEUE_MAXSIZE THEN Tail(@) ELSE @,
                           [type |-> "generation", gen |-> worker[t].gen_idx])]
    /\ worker' = [worker EXCEPT ![t].pc = "loop", ![t].gen_idx = @ + 1]
    /\ UNCHANGED <<call, worldVars, simVars, config, status>>

\* finally: "with _status_lock: _sim_status['running'] = False"
Finally(t) ==
    /\ worker[t].pc = "finally"
    /\ status' = [status EXCEPT !.running = FALSE]
    /\ worker' = [worker EXCEPT ![t].pc = "done"]
    /\ UNCHANGED <<call, worldVars, simVars, config, queue>>

\* finally: "out_q.put({'type': 'done', 'gen': _sim_status['generation']})"
FinallyPut(t) ==
    /\ worker[t].pc = "done"
    /\ Len(queue[t]) < QUEUE_MAXSIZE
    /\ queue' = [queue EXCEPT ![t] =
                    Append(@, [type |-> "done", gen |-> status.generation])]
    /\ worker' = [worker EXCEPT ![t].pc = "terminated"]
    /\ UNCHANGED <<call, worldVars, simVars, config, status>>

StatusNext ==
    \/ start
    \/ stop
    \/ \E t \in DOMAIN worker : SetRunning(t)
    \/ \E t \in DOMAIN worker : LoopHead(t)
    \/ \E t \in DOMAIN worker : OnGenTest(t)
    \/ \E t \in DOMAIN worker : OnGenStatus(t)
    \/ \E t \in DOMAIN worker : OnGenPut(t)
    \/ \E t \in DOMAIN worker : Finally(t)
    \/ \E t \in DOMAIN worker : FinallyPut(t)

SpecStatus == StatusInit /\ [][StatusNext]_vars

\* a step of a thread that is not the one started last
EarlierWorkerStep ==
    /\ Len(worker') = Len(worker)
    /\ \E t \in 1..(Len(worker) - 1) : worker'[t] # worker[t]

(***************************************************************************)
(* C28: the shared status reflects the run started last only: a step of a  *)
(* worker started earlier leaves "running" and "generation" as they are,   *)
(* and from the moment the worker started last has set "running" until it  *)
(* leaves its loop, "running" is true.                                     *)
(***************************************************************************)
C28_StatusOfNewestRun ==
    [][/\ EarlierWorkerStep => status' = status
       /\ (worker' # <<>>
             /\ worker'[Len(worker')].pc \in {"loop", "on_gen", "payload", "put"})
          => status'.running]_vars

(***************************************************************************)
(* C29: in every generation's statistics record survivors <= alive <=      *)
(* population, population being the number of genomes of that generation's *)
(* batch; the kill count is at most the number of agents of that           *)
(* generation that are dead at its end (kills of an earlier generation are *)
(* not in it), and outside radioactive mode alive + kill count =           *)
(* population.                                                             *)
(***************************************************************************)
C29_StatsRecords ==
    (pc # "idle" /\ "stats" \in DOMAIN sim) =>
        \A i \in 1..Len(sim.stats) :
            LET s == sim.stats[i]
            IN  /\ s.survivors <= s.alive
                /\ s.alive <= s.population
                /\ s.population = Len(history.batches[i])
                /\ s.murdered >= 0
                /\ s.murdered <= s.population - s.alive
                /\ sim.selection_mode # "radioactive"
                      => s.alive + s.murdered = s.population

\* outside radioactive mode, the record of a second generation without a
\* kill after a first generation with one, some agent left out by selection
C29_Witness ==
    /\ pc = "callback" /\ sim.selection_mode # "radioactive"
    /\ Len(sim.stats) = 2
    /\ sim.stats[1].murdered > 0
    /\ sim.stats[2].murdered = 0
    /\ sim.stats[2].alive = sim.stats[2].population
    /\ sim.stats[2].survivors < sim.stats[2].alive

(***************************************************************************)
(* creature.py: the step with index sim_step of a generation, for an agent *)
(* alive since the generation began: it has been stepped sim_step times    *)
(***************************************************************************)
\* steps_per_gen of the Simulation: short runs, the default and one more
AgeRuns == {1, 2, STEPS_PER_GEN, STEPS_PER_GEN + 1}

AgeInputs ==
    { c \in [op : {"age"}, done : {FALSE}, steps_per_gen : AgeRuns,
             sim_step : 0..STEPS_PER_GEN, at : Cells(3, 3)] :
        c.sim_step < c.steps_per_gen }

AgeInit ==
    /\ call \in AgeInputs
    /\ LET cs == << [Creature(call.at[1], call.at[2], QuietGenome) EXCEPT
                        !.age = call.sim_step, !.osc_phase = call.sim_step] >>
           one == place_creature(NewWorld(3, 3), cs, 1)
       IN  /\ world = [one.world EXCEPT !.creatures = <<1>>]
           /\ creatures = one.creatures
    /\ lastCall = [op |-> "none"]
    /\ placed = {}
    /\ IdleSim

\* c.step(world, sim_step); the inputs _sense returned are kept in call
AgeStep ==
    /\ call.op = "age" /\ ~call.done
    /\ \E r \in {step(world, creatures, 1, rng, imported.KILL_ENABLED)} :
          /\ world' = r.world
          /\ creatures' = r.creatures
          /\ rng' = r.rng
    /\ call' = [op |-> "age", done |-> TRUE, steps_per_gen |-> call.steps_per_gen,
                sim_step |-> call.sim_step, at |-> call.at,
                inputs |-> LET aged == [creatures EXCEPT ![1].age = @ + 1]
                           IN  sense(world, aged, 1, rng).inputs]
    /\ UNCHANGED <<lastCall, placed, imported, sim, pc, frame, history, serverVars>>

AgeNext == AgeStep

SpecAge == AgeInit /\ [][AgeNext]_vars

(***************************************************************************)
(* C30: at every step of a generation, whatever steps_per_gen is, the age  *)
(* value fed to the brain lies in [0, 1]: the age at sensing time is at    *)
(* most the denominator it is divided by.                                  *)
(***************************************************************************)
C30_AgeInUnitRange ==
    (call.op = "age" /\ call.done) =>
        /\ call.inputs[3] \in 0..FP
        /\ creatures[1].age <= Max(1, STEPS_PER_GEN - 1)
====
